---- MODULE Spec2Model ----
(***************************************************************************)
(* Appointment data-synchronisation and aggregation layer of the           *)
(* scheduling dashboard: status derivation, financial aggregation,         *)
(* paginated fetching, the related-entity cache, the appointment           *)
(* mutations, client deletion, online booking, the client dashboard's      *)
(* client lookup, query retries and the session.  Each component has its   *)
(* own specification over the shared variables; a specification leaves     *)
(* the other components' variables at their initial value.                 *)
(***************************************************************************)
EXTENDS Integers, Sequences, FiniteSets, TLC

VARIABLES
    cell,        \* DashboardModern: the appointment cell last rendered
    finInput,    \* useAppointments: the list handed to getFinancialSummary
    finSummary,  \* useAppointments: <<the summary it returned>>, <<>> before the call
    apptStore,   \* remote store: the rows of the appointments table, by id
    mut,         \* useAppointments: the create / update mutation in flight
    modCache,    \* modalitiesCache.get(user.id): the cached modality ids
    user,        \* useAuth().user.id of the session that runs the resolve calls
    clientsCache,     \* module-level clientsCache: account -> (id -> record)
    modalitiesCache,  \* module-level modalitiesCache: account -> (id -> record)
    remoteRev,   \* remote store: the revision the entity records are at
    relatedInput,  \* the appointments the resolve calls are handed
    frd,         \* fetchRelatedData: the state of each invocation
    fetcher,     \* the component whose paginated fetch is followed
    storeCount,  \* remote store: how many records match the fetch's query
    fetch,       \* the paginated fetch: its locals, request log and outcome
    listData,    \* the component's in-memory list (state or query data)
    dbAppts,     \* remote store: the appointment rows the Clients page works on
    dbClients,   \* remote store: the booking_clients rows of the account
    clients,     \* Clients page: the client list in component state
    modal,       \* Clients page: the state of the delete dialog
    loads,       \* openDeleteModal: the clients whose appointment select is in flight
    del,         \* handleDeleteClient: the run in progress, with its request log
    dm,          \* deleteAppointmentMutation: the mutation in flight
    bkClients,   \* remote store: the booking_clients rows the portal sees
    bkAppts,     \* remote store: the appointment rows the portal sees
    sess,        \* createBookingMutation: the booking of each portal session
    overlap,     \* whether two bookings have been in flight at the same time
    faClient,    \* ClientDashboard: the session's client object
    faStore,     \* remote store: the booking_clients rows the dashboard sees
    faAppts,     \* remote store: the appointments of the admin's account
    agendamentos,  \* ClientDashboard: the appointment list in component state
    fa,          \* fetchAgendamentos: the call in progress, with its request log
    qry,         \* the useQuery calls: the state of each query
    lastUser,    \* the account whose session ended last
    apptQuery,   \* query cache: the entry ['appointments', user.id]
    statusMut,   \* cancelBookingMutation, confirmBookingMutation: the one in flight
    currentWeek,   \* Dashboard: the week on display, counted from the present one
    weekAppointments,  \* Dashboard: the appointment list (state appointments)
    weekCalls,   \* Dashboard.fetchAppointments: the calls in flight, and their history
    caAppts,  \* remote store: the appointment rows handleCancelar works on
    caList,  \* ClientDashboard: agendamentos, with the status of each appointment
    cancelingId,  \* ClientDashboard: the id set by setCancelingId, 0 for null
    ca, \* handleCancelar: the state of each invocation
    tabs  \* ClientDashboard: the appointment last filtered into the tabs

vars == <<cell, finInput, finSummary, apptStore, mut, modCache,
          user, relatedInput, clientsCache, modalitiesCache, remoteRev, frd,
          fetcher, storeCount, fetch, listData,
          dbAppts, dbClients, clients, modal, loads, del, dm,
          bkClients, bkAppts, sess, overlap,
          faClient, faStore, faAppts, agendamentos, fa, qry, lastUser,
          apptQuery, statusMut,
          currentWeek, weekAppointments, weekCalls,
          caAppts, caList, cancelingId, ca,
          tabs>>

\* The variables of each component, for the frame conditions.
statusVars == <<cell>>
finVars == <<finInput, finSummary>>
apptVars == <<apptStore, mut, modCache>>
cacheVars == <<user, relatedInput, clientsCache, modalitiesCache, remoteRev, frd>>
fetchVars == <<fetcher, storeCount, fetch, listData>>
deleteVars == <<dbAppts, dbClients, clients, modal, loads, del, dm>>
bookingVars == <<bkClients, bkAppts, sess, overlap>>
dashVars == <<faClient, faStore, faAppts, agendamentos, fa>>
queryVars == <<qry>>
sessionVars == <<lastUser>>
listVars == <<apptQuery>>
statusMutVars == <<statusMut>>
weekVars == <<currentWeek, weekAppointments, weekCalls>>
cancelVars == <<caAppts, caList, cancelingId, ca>>
tabVars == <<tabs>>
pageVars ==
    <<deleteVars, bookingVars, dashVars, queryVars, sessionVars, listVars,
      statusMutVars, weekVars, cancelVars, tabVars>>
coreVars == <<statusVars, finVars, apptVars, cacheVars, fetchVars>>
otherThanDelete ==
    <<coreVars, bookingVars, dashVars, queryVars, sessionVars, listVars,
      statusMutVars, weekVars, cancelVars, tabVars>>
otherThanBooking ==
    <<coreVars, deleteVars, dashVars, queryVars, sessionVars, listVars,
      statusMutVars, weekVars, cancelVars, tabVars>>
otherThanDash ==
    <<coreVars, deleteVars, bookingVars, queryVars, sessionVars, listVars,
      statusMutVars, weekVars, cancelVars, tabVars>>
otherThanQuery ==
    <<coreVars, deleteVars, bookingVars, dashVars, sessionVars, listVars,
      statusMutVars, weekVars, cancelVars, tabVars>>
otherThanPortal ==
    <<coreVars, deleteVars, dashVars, queryVars, sessionVars, listVars,
      weekVars, cancelVars, tabVars>>
otherThanWeek ==
    <<coreVars, deleteVars, bookingVars, dashVars, queryVars, sessionVars,
      listVars, statusMutVars, cancelVars, tabVars>>
otherThanDeleteAndList ==
    <<coreVars, bookingVars, dashVars, queryVars, sessionVars,
      statusMutVars, weekVars, cancelVars, tabVars>>
otherThanCancel ==
    <<coreVars, deleteVars, bookingVars, dashVars, queryVars, sessionVars,
      listVars, statusMutVars, weekVars, tabVars>>
otherThanTabs ==
    <<coreVars, deleteVars, bookingVars, dashVars, queryVars, sessionVars,
      listVars, statusMutVars, weekVars, cancelVars>>
otherThanList ==
    <<deleteVars, bookingVars, dashVars, queryVars, sessionVars,
      statusMutVars, weekVars, cancelVars, tabVars>>
otherThanSession ==
    <<statusVars, finVars, apptVars, fetchVars,
      deleteVars, bookingVars, dashVars, queryVars, listVars, statusMutVars,
      weekVars, cancelVars, tabVars>>

(***************************************************************************)
(* JavaScript values.  An optional numeric field is a number, null or      *)
(* undefined; the two sentinels stand for the latter.                      *)
(***************************************************************************)
Null == -1
Undefined == -2

\* JS truthiness of an optional boolean (is_cortesia?: boolean).
Truthy(b) == b = "true"

OptBool == {"true", "false", "undefined"}

(***************************************************************************)
(* Dates.  A date-time is a number of clock ticks; a day has TicksPerDay   *)
(* ticks.  NoDate is the omitted (undefined) date argument.                *)
(***************************************************************************)
TicksPerDay == 2
MaxDay == 2
NoDate == -1

Dates == 0 .. (MaxDay + 1) * TicksPerDay - 1

\* Date.prototype.setHours(0, 0, 0, 0): the same day at time-of-day zero.
setHoursZero(d) == d - (d % TicksPerDay)

\* date-fns isBefore(a, b).
isBefore(a, b) == a < b

(***************************************************************************)
(* Status derivation (DashboardModern.tsx)                                 *)
(***************************************************************************)
Statuses == {"agendado", "pago", "a_cobrar", "cancelado"}
\* Raw status strings the derivation functions accept (status: string).
RawStatuses == Statuses \cup {"cortesia", "outro"}
RecurrenceIds == {"undefined", "r1"}

\* The effective status computed in the first half of getStatusColor.
effectiveStatus_noZero(status, date, is_cortesia, now) ==
    LET s1 == IF date # NoDate /\ status = "agendado" /\ isBefore(date, now)
              THEN (IF Truthy(is_cortesia) THEN "cortesia" ELSE "a_cobrar")
              ELSE status
    IN  IF Truthy(is_cortesia) THEN "cortesia" ELSE s1

effectiveStatus(status, date, is_cortesia, now) ==
    LET s1 == IF date # NoDate /\ status = "agendado"
                 /\ isBefore(setHoursZero(date), setHoursZero(now))
              THEN (IF Truthy(is_cortesia) THEN "cortesia" ELSE "a_cobrar")
              ELSE status
    IN  IF Truthy(is_cortesia) THEN "cortesia" ELSE s1

getStatusColor(status, date, recurrence_id, is_cortesia, now) ==
    LET eff == effectiveStatus(status, date, is_cortesia, now)
    IN  IF recurrence_id # "undefined"
        THEN CASE eff = "pago"      -> "bg-green-100 text-green-800 border-green-200"
               [] eff = "a_cobrar"  -> "bg-red-100 text-red-800 border-red-200"
               [] eff = "cortesia"  -> "bg-pink-100 text-pink-800 border-pink-200"
               [] eff = "agendado"  -> "bg-blue-100 text-blue-800 border-blue-200"
               [] eff = "cancelado" -> "bg-gray-100 text-gray-600 border-gray-200 line-through"
               [] OTHER             -> "bg-blue-50 text-blue-700 border-blue-200"
        ELSE CASE eff = "pago"      -> "bg-green-100 text-green-800 border-green-200"
               [] eff = "a_cobrar"  -> "bg-red-100 text-red-800 border-red-200"
               [] eff = "cortesia"  -> "bg-pink-100 text-pink-800 border-pink-200"
               [] eff = "agendado"  -> "bg-purple-100 text-purple-800 border-purple-200"
               [] eff = "cancelado" -> "bg-gray-100 text-gray-600 border-gray-200 line-through"
               [] OTHER             -> "bg-purple-50 text-purple-700 border-purple-200"

\* The label texts; the source prefixes the complimentary label with a gift
\* emoji, which is left out of the string here.
getStatusLabel_anyPastDue(status, date, is_cortesia, now) ==
    IF date # NoDate /\ isBefore(setHoursZero(date), setHoursZero(now))
    THEN (IF Truthy(is_cortesia) THEN "Cortesia" ELSE "A Cobrar")
    ELSE CASE status = "cancelado" -> "Cancelado"
           [] status = "pago"      -> "Pago"
           [] status = "agendado"  -> (IF Truthy(is_cortesia) THEN "Cortesia" ELSE "Agendado")
           [] status = "a_cobrar"  -> "A Cobrar"
           [] status = "cortesia"  -> "Cortesia"
           [] OTHER                -> "A Cobrar"

getStatusLabel(status, date, is_cortesia, now) ==
    IF date # NoDate /\ isBefore(setHoursZero(date), setHoursZero(now))
       /\ status = "agendado"
    THEN (IF Truthy(is_cortesia) THEN "Cortesia" ELSE "A Cobrar")
    ELSE CASE status = "cancelado" -> "Cancelado"
           [] status = "pago"      -> "Pago"
           [] status = "agendado"  -> (IF Truthy(is_cortesia) THEN "Cortesia" ELSE "Agendado")
           [] status = "a_cobrar"  -> "A Cobrar"
           [] status = "cortesia"  -> "Cortesia"
           [] OTHER                -> "A Cobrar"

NoCell == [rendered |-> FALSE]

\* One appointment cell of the weekly grid is rendered at clock reading now:
\* the grid calls getStatusColor and getStatusLabel on the appointment.
RenderCell(status, date, recurrence_id, is_cortesia, now) ==
    /\ ~cell.rendered
    /\ cell' = [rendered      |-> TRUE,
                status        |-> status,
                date          |-> date,
                recurrence_id |-> recurrence_id,
                is_cortesia   |-> is_cortesia,
                now           |-> now,
                color         |-> getStatusColor(status, date, recurrence_id, is_cortesia, now),
                label         |-> getStatusLabel(status, date, is_cortesia, now)]
    /\ UNCHANGED <<finVars, apptVars, cacheVars, fetchVars, pageVars>>

(***************************************************************************)
(* Financial aggregation (useAppointments.getFinancialSummary)             *)
(***************************************************************************)
MaxAppointments == 3
\* valor_total of a listed appointment: an amount, or missing.
Valores == {Null, 0, 50, 100}
FinAppointments == [status : RawStatuses \ {"outro"}, valor_total : Valores]

\* appointment.valor_total || 0
valorOrZero(v) == IF v = Undefined \/ v = Null \/ v = 0 THEN 0 ELSE v

EmptySummary ==
    [total_recebido |-> 0, total_pendente |-> 0, total_agendado |-> 0,
     total_cancelado |-> 0, agendamentos_pagos |-> 0, agendamentos_pendentes |-> 0,
     agendamentos_agendados |-> 0, agendamentos_cancelados |-> 0]

\* The reducer callback: one appointment folded into the summary.
summaryStep_pendingAsPaid(summary, appointment) ==
    LET valor == valorOrZero(appointment.valor_total)
    IN  CASE appointment.status \in {"pago", "a_cobrar"} ->
               [summary EXCEPT !.total_recebido = @ + valor,
                               !.agendamentos_pagos = @ + 1]
          [] appointment.status = "agendado" ->
               [summary EXCEPT !.total_agendado = @ + valor,
                               !.agendamentos_agendados = @ + 1]
          [] appointment.status = "cancelado" ->
               [summary EXCEPT !.total_cancelado = @ + valor,
                               !.agendamentos_cancelados = @ + 1]
          [] OTHER -> summary

summaryStep(summary, appointment) ==
    LET valor == valorOrZero(appointment.valor_total)
    IN  CASE appointment.status = "pago" ->
               [summary EXCEPT !.total_recebido = @ + valor,
                               !.agendamentos_pagos = @ + 1]
          [] appointment.status = "a_cobrar" ->
               [summary EXCEPT !.total_pendente = @ + valor,
                               !.agendamentos_pendentes = @ + 1]
          [] appointment.status = "agendado" ->
               [summary EXCEPT !.total_agendado = @ + valor,
                               !.agendamentos_agendados = @ + 1]
          [] appointment.status = "cancelado" ->
               [summary EXCEPT !.total_cancelado = @ + valor,
                               !.agendamentos_cancelados = @ + 1]
          [] OTHER -> summary

RECURSIVE reduceSummary(_, _)
reduceSummary(appointments, summary) ==
    IF appointments = <<>> THEN summary
    ELSE reduceSummary(Tail(appointments), summaryStep(summary, Head(appointments)))

getFinancialSummary(appointments) == reduceSummary(appointments, EmptySummary)

\* The appointment list of the hook gains one more record (a fetch result is
\* built up record by record here so that every list up to the bound occurs).
FinAppend(a) ==
    /\ finSummary = <<>>
    /\ Len(finInput) < MaxAppointments
    /\ finInput' = Append(finInput, a)
    /\ UNCHANGED <<finSummary, statusVars, apptVars, cacheVars, fetchVars, pageVars>>

\* useMemo(() => getFinancialSummary(appointments)).
FinSummarize ==
    /\ finSummary = <<>>
    /\ finSummary' = <<getFinancialSummary(finInput)>>
    /\ UNCHANGED <<finInput, statusVars, apptVars, cacheVars, fetchVars, pageVars>>

(***************************************************************************)
(* Appointment mutations (useAppointments: createAppointmentMutation,      *)
(* updateAppointmentMutation).  The hook runs for an authenticated user;   *)
(* every remote call may answer with an error.                             *)
(***************************************************************************)
MaxRows == 1

\* The modalities table of the user's account: id -> valor.  "m3" is an id
\* with no row in the account.
ModalityIds == {"m1", "m2"}
modalityValor(m) == IF m = "m1" THEN 120 ELSE 80
RequestedModalityIds == ModalityIds \cup {"m3"}

\* valor of the record that modalitiesCache holds for a cached modality: the
\* price at the time it was cached.  The price of "m2" was changed since.
cachedValor(m) == IF m = "m2" THEN 70 ELSE modalityValor(m)

\* What the store writes into valor_total when an insert leaves the column
\* out: the column default, which the schema (not part of this layer) sets.
ColumnDefaults == {Null, 0}

\* CreateAppointmentData (the fields the mutation reads).
CreateInputs ==
    [modality_id : RequestedModalityIds,
     is_cortesia : OptBool,
     customValue : {Undefined, Null, 0, 50}]

\* UpdateAppointmentData (the fields the mutation reads); "undefined" and
\* Undefined mark a field the caller did not supply.
UpdateInputs ==
    [modality_id : RequestedModalityIds \cup {"undefined"},
     valor_total : {Undefined, 50},
     status      : {"undefined", "pago"}]

\* valor_total of the insert payload.
createValor_overrideFirst(data, valor) ==
    IF data.customValue # Null THEN data.customValue
    ELSE IF Truthy(data.is_cortesia) THEN 0 ELSE valor

createValor(data, valor) ==
    IF Truthy(data.is_cortesia) THEN 0
    ELSE IF data.customValue # Null THEN data.customValue ELSE valor

\* The object handed to insert().
insertPayload(data, valor) ==
    [modality_id |-> data.modality_id,
     valor_total |-> createValor(data, valor),
     is_cortesia |-> Truthy(data.is_cortesia),
     status      |-> "agendado"]

\* The row the store keeps for a payload: a property whose value is
\* undefined is not serialised, so its column gets the column default.
storedRow(payload, dflt) ==
    [payload EXCEPT !.valor_total = IF @ = Undefined THEN dflt ELSE @]

\* updateData = { ...data }, with valor_total overwritten when the modality
\* was resolved.
updateDataOf_keepSupplied(data, valor) ==
    IF data.modality_id # "undefined" /\ data.valor_total = Undefined
    THEN [data EXCEPT !.valor_total = valor]
    ELSE data

updateDataOf(data, valor) ==
    IF data.modality_id # "undefined"
    THEN [data EXCEPT !.valor_total = valor]
    ELSE data

\* The row after update(updateData): the supplied columns replaced.
updatedRow(row, updateData) ==
    [row EXCEPT
        !.modality_id = IF updateData.modality_id = "undefined" THEN @
                        ELSE updateData.modality_id,
        !.valor_total = IF updateData.valor_total = Undefined THEN @
                        ELSE updateData.valor_total,
        !.status      = IF updateData.status = "undefined" THEN @
                        ELSE updateData.status]

\* The query cache entry ['appointments', user.id] that the mutations patch:
\* data is undefined until a fetch or a patch has set it; isInvalidated is
\* what invalidateQueries sets.
NoQueryData == [hasData |-> FALSE, data |-> <<>>, isInvalidated |-> FALSE]

\* How many appointments a client of the Clients page may have; these rows
\* were in the table before the session.
MaxApptsPerClient == 2

\* The id of the row that an insert stores as the i-th row of apptStore.
\* Ids are opaque; the rows written in the session are numbered after the
\* rows that were in the table before.
rowId(i) == MaxApptsPerClient + i

\* An appointment object of the list: the id and the columns of a row.
apptObject(id, row) == [id |-> id, row |-> row]

\* The updater of createAppointmentMutation.onSuccess.
prependTo(q, newAppointment) ==
    IF ~q.hasData THEN <<newAppointment>> ELSE <<newAppointment>> \o q.data

\* The updater of updateAppointmentMutation.onSuccess.
replaceIn_appendMissing(q, updatedAppointment) ==
    IF \E i \in 1 .. Len(q.data) : q.data[i].id = updatedAppointment.id
    THEN [i \in 1 .. Len(q.data) |->
            IF q.data[i].id = updatedAppointment.id THEN updatedAppointment
            ELSE q.data[i]]
    ELSE Append(q.data, updatedAppointment)

replaceIn(q, updatedAppointment) ==
    IF ~q.hasData THEN <<updatedAppointment>>
    ELSE [i \in 1 .. Len(q.data) |->
            IF q.data[i].id = updatedAppointment.id THEN updatedAppointment
            ELSE q.data[i]]

\* The updater of deleteAppointmentMutation.onSuccess.
removeFrom(q, id) ==
    IF ~q.hasData THEN <<>>
    ELSE LET keep(apt) == apt.id # id IN SelectSeq(q.data, keep)

\* setQueryData(key, updater) followed by invalidateQueries.
patched(data) == [hasData |-> TRUE, data |-> data, isInvalidated |-> TRUE]

Idle == [pc |-> "idle"]
MutSettled == mut.pc \in {"idle", "created", "updated", "failed"}

\* createAppointmentMutation.mutationFn, up to the first await: the modality
\* lookup is issued.
CreateStart(data) ==
    /\ MutSettled
    /\ Len(apptStore) < MaxRows
    /\ mut' = [pc |-> "create_modality", data |-> data]
    /\ UNCHANGED <<apptStore, modCache, statusVars, finVars, cacheVars, fetchVars, pageVars>>

\* The modality lookup answers with a row: the insert is issued.
CreateModalityFound_anyModality ==
    /\ mut.pc = "create_modality"
    /\ mut' = [pc      |-> "create_insert",
               data    |-> mut.data,
               payload |-> insertPayload(mut.data, modalityValor(mut.data.modality_id))]
    /\ UNCHANGED <<apptStore, modCache, statusVars, finVars, cacheVars, fetchVars, pageVars>>

CreateModalityFound ==
    /\ mut.pc = "create_modality"
    /\ mut.data.modality_id \in ModalityIds
    /\ mut' = [pc      |-> "create_insert",
               data    |-> mut.data,
               payload |-> insertPayload(mut.data, modalityValor(mut.data.modality_id))]
    /\ UNCHANGED <<apptStore, modCache, statusVars, finVars, cacheVars, fetchVars, pageVars>>

\* The modality lookup answers with an error (no row for the account, or the
\* request failed): throw new Error('Modalidade não encontrada').
CreateModalityError ==
    /\ mut.pc = "create_modality"
    /\ mut' = [pc |-> "failed", op |-> "create", data |-> mut.data,
               error |-> "Modalidade nao encontrada"]
    /\ UNCHANGED <<apptStore, modCache, statusVars, finVars, cacheVars, fetchVars, pageVars>>

\* The insert succeeds: the store holds the new row and returns it, and
\* onSuccess patches the list and invalidates the query.
CreateInsertOk(dflt) ==
    /\ mut.pc = "create_insert"
    /\ apptStore' = Append(apptStore, storedRow(mut.payload, dflt))
    /\ mut' = [pc |-> "created", data |-> mut.data, id |-> Len(apptStore) + 1]
    /\ apptQuery' = patched(prependTo(apptQuery,
                        apptObject(rowId(Len(apptStore) + 1),
                                   storedRow(mut.payload, dflt))))
    /\ UNCHANGED <<modCache, statusVars, finVars, cacheVars, fetchVars, otherThanList>>

\* The insert answers with an error, which the mutation throws.
CreateInsertError ==
    /\ mut.pc = "create_insert"
    /\ mut' = [pc |-> "failed", op |-> "create", data |-> mut.data,
               error |-> "insert error"]
    /\ UNCHANGED <<apptStore, modCache, statusVars, finVars, cacheVars, fetchVars, pageVars>>

\* updateAppointmentMutation.mutationFn, up to its first await.  With no
\* modality in the data, or with the modality in the cache, that is the
\* update request; otherwise the modality lookup.
UpdateStart(id, data) ==
    /\ MutSettled
    /\ IF data.modality_id # "undefined" /\ data.modality_id \notin modCache
       THEN mut' = [pc |-> "update_modality", id |-> id, data |-> data]
       ELSE mut' = [pc |-> "update_write", id |-> id, data |-> data,
                    updateData |->
                        updateDataOf(data, IF data.modality_id = "undefined" THEN Undefined
                                           ELSE cachedValor(data.modality_id))]
    /\ UNCHANGED <<apptStore, modCache, statusVars, finVars, cacheVars, fetchVars, pageVars>>

\* The modality lookup of an update answers with a row.
UpdateModalityFound ==
    /\ mut.pc = "update_modality"
    /\ mut.data.modality_id \in ModalityIds
    /\ mut' = [pc |-> "update_write", id |-> mut.id, data |-> mut.data,
               updateData |-> updateDataOf(mut.data, modalityValor(mut.data.modality_id))]
    /\ UNCHANGED <<apptStore, modCache, statusVars, finVars, cacheVars, fetchVars, pageVars>>

\* The modality lookup of an update answers with an error.
UpdateModalityError ==
    /\ mut.pc = "update_modality"
    /\ mut' = [pc |-> "failed", op |-> "update", data |-> mut.data,
               error |-> "Modalidade nao encontrada"]
    /\ UNCHANGED <<apptStore, modCache, statusVars, finVars, cacheVars, fetchVars, pageVars>>

\* The update succeeds on the row with that id, which the store returns, and
\* onSuccess patches the list and invalidates the query.
UpdateWriteOk ==
    /\ mut.pc = "update_write"
    /\ mut.id \in DOMAIN apptStore
    /\ apptStore' = [apptStore EXCEPT ![mut.id] = updatedRow(@, mut.updateData)]
    /\ mut' = [pc |-> "updated", data |-> mut.data, id |-> mut.id]
    /\ apptQuery' = patched(replaceIn(apptQuery,
                        apptObject(rowId(mut.id),
                                   updatedRow(apptStore[mut.id], mut.updateData))))
    /\ UNCHANGED <<modCache, statusVars, finVars, cacheVars, fetchVars, otherThanList>>

\* The update answers with an error (no such row, or the request failed).
UpdateWriteError ==
    /\ mut.pc = "update_write"
    /\ mut' = [pc |-> "failed", op |-> "update", data |-> mut.data,
               error |-> "update error"]
    /\ UNCHANGED <<apptStore, modCache, statusVars, finVars, cacheVars, fetchVars, pageVars>>

(***************************************************************************)
(* Related-entity cache (useAppointments.fetchRelatedData)                 *)
(***************************************************************************)
MaxApts == 2
MaxResolves == 2
MaxRev == 1

Accounts == {"u1", "u2"}
\* The invocations of fetchRelatedData, which may overlap.
CallIds == 1 .. MaxResolves

\* booking_clients and modalities rows of the remote store, with the account
\* (user_id) each belongs to.
ClientIds == {"c1", "c2", "c3"}
clientOwner(id) == IF id = "c3" THEN "u2" ELSE "u1"
CacheModalityIds == {"m1", "m2"}
modalityOwner(id) == IF id = "m2" THEN "u2" ELSE "u1"

\* The appointments handed to fetchRelatedData: client_id and modality_id,
\* either of which may be null.
RelatedAppointments ==
    {[client_id |-> "c1", modality_id |-> "m1"],
     [client_id |-> "c2", modality_id |-> "m1"],
     [client_id |-> "c3", modality_id |-> "m2"],
     [client_id |-> "null", modality_id |-> "null"]}

RECURSIVE seqsUpTo(_, _)
\* Every sequence over S of length at most n.
seqsUpTo(S, n) ==
    IF n = 0 THEN {<<>>}
    ELSE LET shorter == seqsUpTo(S, n - 1)
         IN  shorter \cup {Append(q, x) : q \in shorter, x \in S}

RelatedInputs == seqsUpTo(RelatedAppointments, MaxApts)

EmptyMap == [id \in {} |-> id]
NoCaches == [a \in Accounts |-> EmptyMap]

\* The contents an account's client cache can have from earlier resolve
\* calls: records of the account's own clients, as first fetched.
CachedClientMaps(a) ==
    {[id \in ids |-> [id |-> id, rev |-> 0]] :
        ids \in SUBSET {x \in ClientIds : clientOwner(x) = a}}

\* Map.prototype.set for every record of rows.
mapSetAll(m, rows) ==
    [id \in DOMAIN m \cup {r.id : r \in rows} |->
        IF \E r \in rows : r.id = id THEN CHOOSE r \in rows : r.id = id ELSE m[id]]

RECURSIVE uniqueOf(_, _)
\* [...new Set(ids)]: the distinct values in order of first occurrence.
uniqueOf(ids, seen) ==
    IF ids = <<>> THEN <<>>
    ELSE IF Head(ids) \in seen THEN uniqueOf(Tail(ids), seen)
         ELSE <<Head(ids)>> \o uniqueOf(Tail(ids), seen \cup {Head(ids)})

unique(ids) == uniqueOf(ids, {})

\* .filter(Boolean) on a list of nullable ids.
filterBoolean(ids) == SelectSeq(ids, LAMBDA id : id # "null")

uniqueClientIds(appointments) ==
    unique(filterBoolean([i \in DOMAIN appointments |-> appointments[i].client_id]))

uniqueModalityIds(appointments) ==
    unique(filterBoolean([i \in DOMAIN appointments |-> appointments[i].modality_id]))

\* ids.filter(id => !cached?.has(id))
missingIds_all(ids, cached) == ids

missingIds(ids, cached) == SelectSeq(ids, LAMBDA id : id \notin DOMAIN cached)

Range(q) == {q[i] : i \in DOMAIN q}

\* The selects Promise.all issues: one per table with missing ids.
relatedRequests(missingClientIds, missingModalityIds) ==
    (IF Len(missingClientIds) > 0
     THEN {[table |-> "booking_clients", ids |-> missingClientIds]} ELSE {})
    \cup
    (IF Len(missingModalityIds) > 0
     THEN {[table |-> "modalities", ids |-> missingModalityIds]} ELSE {})

\* select(...).in('id', ids).eq('user_id', userId) on booking_clients.
selectClients(ids, userId) ==
    {[id |-> id, rev |-> remoteRev] : id \in {x \in Range(ids) : clientOwner(x) = userId}}

\* select(...).in('id', ids).eq('user_id', userId) on modalities.
selectModalities(ids, userId) ==
    {[id |-> id, rev |-> remoteRev] : id \in {x \in Range(ids) : modalityOwner(x) = userId}}

\* The data of the response to the select on a table; null (no rows to
\* merge) when the select was not issued or answered with an error.
responseData(requests, table, ok, userId) ==
    IF ok /\ \E r \in requests : r.table = table
    THEN LET r == CHOOSE q \in requests : q.table = table
         IN  IF table = "booking_clients" THEN selectClients(r.ids, userId)
             ELSE selectModalities(r.ids, userId)
    ELSE {}

FrdIdle == [pc |-> "idle"]

\* fetchRelatedData up to its await: the ids are collected, checked against
\* the cache and the selects are issued for the missing ones.  With no
\* appointments it returns two empty maps at once.
FrdStart(c) ==
    /\ frd[c].pc = "idle"
    /\ IF c = 1 THEN TRUE ELSE frd[c - 1].pc # "idle"
    /\ LET appointments == relatedInput
           missingClientIds ==
               missingIds(uniqueClientIds(appointments), clientsCache[user])
           missingModalityIds ==
               missingIds(uniqueModalityIds(appointments), modalitiesCache[user])
       IN  frd' = [frd EXCEPT ![c] =
                IF Len(appointments) = 0
                THEN [pc |-> "done", userId |-> user,
                      cachedClients |-> EmptyMap, cachedModalities |-> EmptyMap,
                      requests |-> {},
                      clientsMap |-> EmptyMap, modalitiesMap |-> EmptyMap]
                ELSE [pc |-> "waiting", userId |-> user,
                      cachedClients |-> clientsCache[user],
                      cachedModalities |-> modalitiesCache[user],
                      requests |-> relatedRequests(missingClientIds, missingModalityIds)]]
    /\ UNCHANGED <<user, relatedInput, clientsCache, modalitiesCache, remoteRev>>
    /\ UNCHANGED <<statusVars, finVars, apptVars, fetchVars, pageVars>>

\* Promise.all has settled: each select that was issued answered with its
\* rows (clientsOk, modalitiesOk) or with an error.  The rows are merged into
\* a copy of the cache read before the await; the copy is saved as the
\* account's cache and returned.
FrdFinish(c, clientsOk, modalitiesOk) ==
    /\ frd[c].pc = "waiting"
    /\ LET call == frd[c]
           clientsData ==
               responseData(call.requests, "booking_clients", clientsOk, call.userId)
           modalitiesData ==
               responseData(call.requests, "modalities", modalitiesOk, call.userId)
           newClientsMap == mapSetAll(call.cachedClients, clientsData)
           newModalitiesMap == mapSetAll(call.cachedModalities, modalitiesData)
       IN  /\ clientsCache' = [clientsCache EXCEPT ![call.userId] = newClientsMap]
           /\ modalitiesCache' = [modalitiesCache EXCEPT ![call.userId] = newModalitiesMap]
           /\ frd' = [frd EXCEPT ![c] =
                        [pc |-> "done", userId |-> call.userId,
                         cachedClients |-> call.cachedClients,
                         cachedModalities |-> call.cachedModalities,
                         requests |-> call.requests,
                         clientsMap |-> newClientsMap, modalitiesMap |-> newModalitiesMap]]
    /\ UNCHANGED <<user, relatedInput, remoteRev>>
    /\ UNCHANGED <<statusVars, finVars, apptVars, fetchVars, pageVars>>

\* A record of the remote store is edited by another session: the rows
\* selected from now on are at the next revision.
RemoteEdit ==
    /\ remoteRev < MaxRev
    /\ remoteRev' = remoteRev + 1
    /\ UNCHANGED <<user, relatedInput, clientsCache, modalitiesCache, frd>>
    /\ UNCHANGED <<statusVars, finVars, apptVars, fetchVars, pageVars>>

(***************************************************************************)
(* Paginated fetching.  The same loop is written out in useAppointments    *)
(* (queryFn), getAppointmentsByPeriod, Dashboard.fetchAppointments,        *)
(* Clients.fetchClients and useClientBookings (queryFn); they differ in    *)
(* what follows the loop.  The matching records of the remote collection   *)
(* are named by their rank 1 .. storeCount in the query's sort order; the  *)
(* collection stays as it is while a fetch runs.                           *)
(***************************************************************************)
pageSize == 1000
maxPages == 10
Slack == 1

Fetchers ==
    {"useAppointments", "getAppointmentsByPeriod", "fetchAppointments",
     "fetchClients", "useClientBookings"}

\* The collection sizes followed: within Slack of no page, one page and the
\* page cap.
RecordCounts ==
    {k * pageSize + d : k \in {0, 1, maxPages}, d \in (0 - Slack) .. Slack} \cap Nat

\* .range(from, to) on the ordered matching records: offsets from .. to,
\* both inclusive.
rangeOf_exclusive(n, from, to) ==
    LET last == IF to < n THEN to ELSE n
    IN  IF from >= last THEN <<>> ELSE [i \in 1 .. (last - from) |-> from + i]

rangeOf(n, from, to) ==
    LET last == IF to + 1 < n THEN to + 1 ELSE n
    IN  IF from >= last THEN <<>> ELSE [i \in 1 .. (last - from) |-> from + i]

\* The body of the while loop after a page arrived without error.
pageStep_noCap(f, pageData) ==
    LET grown == Len(pageData) > 0
    IN  [f EXCEPT !.allAppointments = IF grown THEN @ \o pageData ELSE @,
                  !.from = IF grown THEN f.from + pageSize ELSE f.from,
                  !.hasMore = IF grown THEN Len(pageData) = pageSize ELSE FALSE,
                  !.requests = Append(@, f.from),
                  !.pageLens = Append(@, Len(pageData))]

pageStep(f, pageData) ==
    LET grown == Len(pageData) > 0
        from1 == IF grown THEN f.from + pageSize ELSE f.from
        more1 == IF grown THEN Len(pageData) = pageSize ELSE FALSE
        more2 == IF from1 >= pageSize * maxPages THEN FALSE ELSE more1
    IN  [f EXCEPT !.allAppointments = IF grown THEN @ \o pageData ELSE @,
                  !.from = from1,
                  !.hasMore = more2,
                  !.requests = Append(@, f.from),
                  !.pageLens = Append(@, Len(pageData))]

\* The list element a component builds from the record of rank id.
viewOf(who, id) ==
    [id |-> id,
     view |-> CASE who \in {"useAppointments", "getAppointmentsByPeriod"} -> "joined"
                [] who = "fetchAppointments" -> "processed"
                [] who = "useClientBookings" -> "booking"
                [] OTHER -> "row"]

viewList(who, records) == [i \in DOMAIN records |-> viewOf(who, records[i])]

NoFetch ==
    [pc |-> "idle", from |-> 0, hasMore |-> FALSE, allAppointments |-> <<>>,
     error |-> FALSE, clientsError |-> FALSE, requests |-> <<>>, pageLens |-> <<>>,
     listBefore |-> <<>>, outcome |-> "none"]

\* A fetch is called: the locals are initialised and the first page is
\* requested.
StartFetch(n) ==
    /\ fetch.pc \in {"idle", "done"}
    /\ storeCount' = n
    /\ fetch' = [NoFetch EXCEPT !.pc = "loop", !.hasMore = TRUE,
                                !.listBefore = listData, !.outcome = "pending"]
    /\ UNCHANGED <<fetcher, listData>>
    /\ UNCHANGED <<statusVars, finVars, apptVars, cacheVars, pageVars>>

\* What follows the loop when it ended without a page error, up to the next
\* await or the end of the function: the new fetch record and list.
afterLoop(who, f, list) ==
    CASE who \in {"useAppointments", "getAppointmentsByPeriod"} ->
            <<[f EXCEPT !.pc = "related"], list>>
      [] who \in {"fetchAppointments", "fetchClients"} ->
            <<[f EXCEPT !.pc = "done", !.outcome = "success"],
              viewList(who, f.allAppointments)>>
      [] OTHER ->
            IF Len(f.allAppointments) = 0
            THEN <<[f EXCEPT !.pc = "done", !.outcome = "success"], <<>>>>
            ELSE <<[f EXCEPT !.pc = "clients"], list>>

\* What follows the loop when a page request failed: the hook functions
\* throw the error, the page components throw it into their own catch, which
\* shows a toast, and useClientBookings returns [].
afterError_keepPartial(who, f, list) ==
    CASE who \in {"useAppointments", "getAppointmentsByPeriod"} ->
            <<[f EXCEPT !.pc = "done", !.outcome = "thrown"], list>>
      [] who \in {"fetchAppointments", "fetchClients"} ->
            <<[f EXCEPT !.pc = "done", !.outcome = "toast"],
              viewList(who, f.allAppointments)>>
      [] OTHER ->
            <<[f EXCEPT !.pc = "done", !.outcome = "success"], <<>>>>

afterError(who, f, list) ==
    CASE who \in {"useAppointments", "getAppointmentsByPeriod"} ->
            <<[f EXCEPT !.pc = "done", !.outcome = "thrown"], list>>
      [] who \in {"fetchAppointments", "fetchClients"} ->
            <<[f EXCEPT !.pc = "done", !.outcome = "toast"], list>>
      [] OTHER ->
            <<[f EXCEPT !.pc = "done", !.outcome = "success"], <<>>>>

\* The awaited page arrives without error.  The loop body runs; when hasMore
\* is still true the next page is requested, otherwise the code after the
\* loop runs.
PageOk ==
    /\ fetch.pc = "loop"
    /\ LET pageData == rangeOf(storeCount, fetch.from, fetch.from + pageSize - 1)
           f1 == pageStep(fetch, pageData)
           end == afterLoop(fetcher, f1, listData)
       IN  IF f1.hasMore
           THEN fetch' = f1 /\ listData' = listData
           ELSE fetch' = end[1] /\ listData' = end[2]
    /\ UNCHANGED <<fetcher, storeCount>>
    /\ UNCHANGED <<statusVars, finVars, apptVars, cacheVars, pageVars>>

\* The awaited page arrives with an error: error = pageError; break; and the
\* code after the loop runs.
PageError ==
    /\ fetch.pc = "loop"
    /\ LET f1 == [fetch EXCEPT !.error = TRUE, !.requests = Append(@, fetch.from)]
           end == afterError(fetcher, f1, listData)
       IN  fetch' = end[1] /\ listData' = end[2]
    /\ UNCHANGED <<fetcher, storeCount>>
    /\ UNCHANGED <<statusVars, finVars, apptVars, cacheVars, pageVars>>

\* useAppointments / getAppointmentsByPeriod: fetchRelatedData has returned
\* (it reports no error) and every appointment is combined with its client
\* and modality; the list is the function's result.
RelatedResolved ==
    /\ fetch.pc = "related"
    /\ listData' = viewList(fetcher, fetch.allAppointments)
    /\ fetch' = [fetch EXCEPT !.pc = "done", !.outcome = "success"]
    /\ UNCHANGED <<fetcher, storeCount>>
    /\ UNCHANGED <<statusVars, finVars, apptVars, cacheVars, pageVars>>

\* useClientBookings: the select of the appointments' clients has answered
\* with rows; every appointment is combined with its client.
BookingClientsOk ==
    /\ fetch.pc = "clients"
    /\ listData' = viewList(fetcher, fetch.allAppointments)
    /\ fetch' = [fetch EXCEPT !.pc = "done", !.outcome = "success"]
    /\ UNCHANGED <<fetcher, storeCount>>
    /\ UNCHANGED <<statusVars, finVars, apptVars, cacheVars, pageVars>>

\* useClientBookings: the select of the clients answered with an error:
\* return [].
BookingClientsError ==
    /\ fetch.pc = "clients"
    /\ listData' = <<>>
    /\ fetch' = [fetch EXCEPT !.pc = "done", !.outcome = "success",
                              !.clientsError = TRUE]
    /\ UNCHANGED <<fetcher, storeCount>>
    /\ UNCHANGED <<statusVars, finVars, apptVars, cacheVars, pageVars>>

\* Another session adds or removes matching records while the fetch is
\* between two pages.
StoreChange(n) ==
    /\ fetch.pc = "loop"
    /\ n # storeCount
    /\ storeCount' = n
    /\ UNCHANGED <<fetcher, fetch, listData>>
    /\ UNCHANGED <<statusVars, finVars, apptVars, cacheVars, pageVars>>

(***************************************************************************)
(* Text.  A string is a sequence of characters; trim and toLowerCase are   *)
(* the String methods of those names.                                      *)
(***************************************************************************)
lowerOf(ch) == IF ch = "A" THEN "a" ELSE IF ch = "B" THEN "b" ELSE ch

toLowerCase(t) == [i \in 1 .. Len(t) |-> lowerOf(t[i])]

RECURSIVE trimStart(_)
trimStart(t) ==
    IF t = <<>> THEN t
    ELSE IF Head(t) = " " THEN trimStart(Tail(t)) ELSE t

RECURSIVE trimEnd(_)
trimEnd(t) ==
    IF t = <<>> THEN t
    ELSE IF t[Len(t)] = " " THEN trimEnd(SubSeq(t, 1, Len(t) - 1)) ELSE t

trim(t) == trimEnd(trimStart(t))

(***************************************************************************)
(* Clients page (DashboardModern.tsx, component Clients): the delete       *)
(* dialog, openDeleteModal and handleDeleteClient; and the delete          *)
(* mutation of useAppointments.  The remote store executes the request it  *)
(* is sent or answers with an error.                                       *)
(***************************************************************************)
PageClients == {"k1", "k2"}

clientName(c) == IF c = "k1" THEN <<"A", "b">> ELSE <<"b">>

\* What the operator may have typed in the confirmation input.
ConfirmTexts == {<<>>, <<"A", "b">>, <<"a", "b">>, <<"A", "b", " ">>, <<"b">>}

\* The appointment rows the store may hold: those of client k1 of the
\* session's account, and one row of another account.
ForeignRow == [id |-> 0, client_id |-> "k9", user_id |-> "u2"]

ApptRowUniverse ==
    {[id |-> i, client_id |-> "k1", user_id |-> "u1"] : i \in 1 .. MaxApptsPerClient}
        \cup {ForeignRow}

RowIds == {r.id : r \in ApptRowUniverse}

\* select ... from appointments where client_id = c and user_id = u
selectByClient(rows, c, u) == {r \in rows : r.client_id = c /\ r.user_id = u}

\* delete from appointments where client_id = c and user_id = u
deleteByClient(rows, c, u) == rows \ selectByClient(rows, c, u)

\* delete from appointments where id = id and user_id = u
deleteById_anyAccount(rows, id, u) == {r \in rows : r.id # id}

deleteById(rows, id, u) == {r \in rows : ~(r.id = id /\ r.user_id = u)}

ModalClosed ==
    [clientToDelete |-> "null", loadingAppointments |-> FALSE,
     appointmentsForClient |-> {}, confirmClientName |-> <<>>,
     isDeleting |-> FALSE]

DelIdle ==
    [pc |-> "idle", target |-> "null", snapshot |-> {}, hadRows |-> FALSE,
     requests |-> <<>>, apptsFailed |-> FALSE, outcome |-> "none"]

\* removed: the rows the store deleted for the request.
DmIdle == [pc |-> "idle", id |-> 0, outcome |-> "none", removed |-> {}]

\* AlertDialogAction.disabled
deleteDisabled(m) ==
    IF m.isDeleting \/ m.clientToDelete = "null" THEN TRUE
    ELSE /\ Cardinality(m.appointmentsForClient) > 0
         /\ toLowerCase(trim(m.confirmClientName))
                # toLowerCase(trim(clientName(m.clientToDelete)))

\* openDeleteModal, up to the appointments select.
OpenDeleteModal(c) ==
    /\ c \in clients
    /\ modal.clientToDelete = "null"
    /\ modal' = [modal EXCEPT !.clientToDelete = c,
                              !.loadingAppointments = TRUE,
                              !.appointmentsForClient = {},
                              !.confirmClientName = <<>>]
    /\ loads' = loads \cup {c}
    /\ UNCHANGED <<dbAppts, dbClients, clients, del, dm>>
    /\ UNCHANGED otherThanDelete

\* openDeleteModal: the select answered with rows.
LoadAppointmentsOk(c) ==
    /\ c \in loads
    /\ loads' = loads \ {c}
    /\ modal' = [modal EXCEPT
                    !.appointmentsForClient =
                        {r.id : r \in selectByClient(dbAppts, c, user)},
                    !.loadingAppointments = FALSE]
    /\ UNCHANGED <<dbAppts, dbClients, clients, del, dm>>
    /\ UNCHANGED otherThanDelete

\* openDeleteModal: the select answered with an error (catch, finally).
LoadAppointmentsError(c) ==
    /\ c \in loads
    /\ loads' = loads \ {c}
    /\ modal' = [modal EXCEPT !.loadingAppointments = FALSE]
    /\ UNCHANGED <<dbAppts, dbClients, clients, del, dm>>
    /\ UNCHANGED otherThanDelete

\* Input.onChange of the confirmation field, rendered when the list is not empty.
TypeConfirmName(t) ==
    /\ modal.clientToDelete # "null"
    /\ Cardinality(modal.appointmentsForClient) > 0
    /\ t # modal.confirmClientName
    /\ modal' = [modal EXCEPT !.confirmClientName = t]
    /\ UNCHANGED <<dbAppts, dbClients, clients, loads, del, dm>>
    /\ UNCHANGED otherThanDelete

\* AlertDialog.onOpenChange
CloseDeleteModal ==
    /\ modal.clientToDelete # "null"
    /\ modal' = [modal EXCEPT !.clientToDelete = "null",
                              !.confirmClientName = <<>>]
    /\ UNCHANGED <<dbAppts, dbClients, clients, loads, del, dm>>
    /\ UNCHANGED otherThanDelete

\* handleDeleteClient, up to its first remote request.  The handler works on
\* the clientToDelete and appointmentsForClient of the render it was bound in.
ClickDelete ==
    /\ ~deleteDisabled(modal)
    /\ del.pc \in {"idle", "done"}
    /\ LET target == modal.clientToDelete
           snapshot == modal.appointmentsForClient
       IN  del' = [pc |-> IF Cardinality(snapshot) > 0 THEN "delAppts" ELSE "delClient",
                   target |-> target,
                   snapshot |-> snapshot,
                   hadRows |-> selectByClient(dbAppts, target, user) # {},
                   requests |-> IF Cardinality(snapshot) > 0
                                THEN <<"appointments">> ELSE <<"booking_clients">>,
                   apptsFailed |-> FALSE,
                   outcome |-> "none"]
    /\ modal' = [modal EXCEPT !.isDeleting = TRUE]
    /\ UNCHANGED <<dbAppts, dbClients, clients, loads, dm>>
    /\ UNCHANGED otherThanDelete

\* The appointments delete succeeded: the client delete is sent.
DeleteApptsOk ==
    /\ del.pc = "delAppts"
    /\ dbAppts' = deleteByClient(dbAppts, del.target, user)
    /\ del' = [del EXCEPT !.pc = "delClient",
                          !.requests = Append(@, "booking_clients")]
    /\ UNCHANGED <<dbClients, clients, modal, loads, dm>>
    /\ UNCHANGED otherThanDelete

\* The appointments delete failed: throw, toast, finally.
DeleteApptsError ==
    /\ del.pc = "delAppts"
    /\ del' = [del EXCEPT !.pc = "done", !.apptsFailed = TRUE, !.outcome = "toast"]
    /\ modal' = [modal EXCEPT !.isDeleting = FALSE]
    /\ UNCHANGED <<dbAppts, dbClients, clients, loads, dm>>
    /\ UNCHANGED otherThanDelete

\* The client delete succeeded.
DeleteClientOk ==
    /\ del.pc = "delClient"
    /\ dbClients' = dbClients \ {del.target}
    /\ clients' = clients \ {del.target}
    /\ modal' = [modal EXCEPT !.clientToDelete = "null",
                              !.appointmentsForClient = {},
                              !.isDeleting = FALSE]
    /\ del' = [del EXCEPT !.pc = "done", !.outcome = "success"]
    /\ UNCHANGED <<dbAppts, loads, dm>>
    /\ UNCHANGED otherThanDelete

\* The client delete failed: throw, toast, finally.
DeleteClientError ==
    /\ del.pc = "delClient"
    /\ del' = [del EXCEPT !.pc = "done", !.outcome = "toast"]
    /\ modal' = [modal EXCEPT !.isDeleting = FALSE]
    /\ UNCHANGED <<dbAppts, dbClients, clients, loads, dm>>
    /\ UNCHANGED otherThanDelete

\* deleteAppointmentMutation.mutationFn, up to the delete request.
DeleteAppointmentStart(id) ==
    /\ dm.pc \in {"idle", "done"}
    /\ dm' = [pc |-> "request", id |-> id, outcome |-> "none", removed |-> {}]
    /\ UNCHANGED <<dbAppts, dbClients, clients, modal, loads, del>>
    /\ UNCHANGED otherThanDelete

\* The delete request succeeds, and onSuccess patches the list and
\* invalidates the query.
DeleteAppointmentOk ==
    /\ dm.pc = "request"
    /\ dbAppts' = deleteById(dbAppts, dm.id, user)
    /\ dm' = [dm EXCEPT !.pc = "done", !.outcome = "success",
                        !.removed = dbAppts \ deleteById(dbAppts, dm.id, user)]
    /\ apptQuery' = patched(removeFrom(apptQuery, dm.id))
    /\ UNCHANGED <<dbClients, clients, modal, loads, del>>
    /\ UNCHANGED otherThanDeleteAndList

DeleteAppointmentError ==
    /\ dm.pc = "request"
    /\ dm' = [dm EXCEPT !.pc = "done", !.outcome = "error"]
    /\ UNCHANGED <<dbAppts, dbClients, clients, modal, loads, del>>
    /\ UNCHANGED otherThanDelete

\* The components of the pages at rest.
DeleteIdle ==
    /\ dbAppts = {}
    /\ dbClients = PageClients
    /\ clients = PageClients
    /\ modal = ModalClosed
    /\ loads = {}
    /\ del = DelIdle
    /\ dm = DmIdle

(***************************************************************************)
(* Online booking (ClientDashboard.tsx, useClientBookings):                *)
(* createBookingMutation.mutationFn, run by browser sessions of the        *)
(* booking portal against the same remote store.  Each await is a step;    *)
(* the store answers a request with its result or with an error.           *)
(***************************************************************************)
Sessions == {"s1", "s2"}

BkAccounts == {"u1", "u2"}

BkDates == {1, 2}

\* client_data.email as typed; NoEmail is a booking without client_data.
NoEmail == <<"-">>

BkEmails == {<<"a">>, <<" ", "A">>, <<"b">>}

\* client_id of the booking data: 0 is an omitted client_id.
NoClientId == 0

KnownClient == [id |-> 1, email |-> <<"a">>, user_id |-> "u1"]

BookingInputs ==
    [user_id : BkAccounts, date : BkDates,
     client_id : {NoClientId, KnownClient.id},
     email : BkEmails \cup {NoEmail}]

\* The appointment the slot of date 1 of account u1 may already hold.
SlotRows ==
    {[id |-> 1, user_id |-> "u1", date |-> 1, status |-> st,
      client_id |-> KnownClient.id, by |-> "store"] : st \in {"agendado", "cancelado", "pago"}}

normalizedEmailOf(email) == toLowerCase(trim(email))

\* select ... from booking_clients where email = e and user_id = u
clientsMatching(rows, e, u) == {c \in rows : c.email = e /\ c.user_id = u}

\* maybeSingle(): the row when exactly one matches, else null (0); more than
\* one match is an error, of which the code reads only data.
maybeSingleId(rows) ==
    IF Cardinality(rows) = 1 THEN (CHOOSE c \in rows : TRUE).id ELSE 0

\* select id from appointments where user_id = u and date = d
\*   and not status = 'cancelado'
existingAppointmentsOf_anyStatus(rows, u, d) ==
    {r \in rows : r.user_id = u /\ r.date = d}

existingAppointmentsOf_cancelledOnly(rows, u, d) ==
    {r \in rows : r.user_id = u /\ r.date = d /\ r.status = "cancelado"}

existingAppointmentsOf(rows, u, d) ==
    {r \in rows : r.user_id = u /\ r.date = d /\ r.status # "cancelado"}

newClientId(rows) == 100 + Cardinality(rows)

newAppointmentId(rows) == 1 + Cardinality(rows)

\* atCheck: the appointment rows the store held when the slot check was
\* answered; overlapped: another session's booking was in flight during
\* this one.
SessIdle ==
    [pc |-> "idle", data |-> [user_id |-> "u1", date |-> 1,
                              client_id |-> NoClientId, email |-> NoEmail],
     clientId |-> NoClientId, createdClient |-> FALSE, checked |-> FALSE,
     atCheck |-> {}, row |-> 0, error |-> "none"]

InFlight(s) == sess[s].pc \notin {"idle", "done"}

Fail(s, msg) == [sess EXCEPT ![s].pc = "done", ![s].error = msg]

\* mutationFn, up to its first await.
BookStart(s, data) ==
    /\ sess[s].pc = "idle"
    /\ sess' = [sess EXCEPT
            ![s].data = data,
            ![s].clientId = data.client_id,
            ![s].pc = IF data.client_id = NoClientId /\ data.email # NoEmail
                      THEN "lookup"
                      ELSE IF data.client_id = NoClientId THEN "done" ELSE "check",
            ![s].error = IF data.client_id = NoClientId /\ data.email = NoEmail
                         THEN "ID do cliente" ELSE "none"]
    /\ overlap' = (overlap \/ \E t \in Sessions \ {s} : InFlight(t))
    /\ UNCHANGED <<bkClients, bkAppts>>
    /\ UNCHANGED otherThanBooking

\* The client lookup answered: with its rows, or with an error (ok = FALSE).
LookupAnswered(s, ok) ==
    /\ sess[s].pc = "lookup"
    /\ LET found == IF ok
                    THEN maybeSingleId(clientsMatching(bkClients,
                            normalizedEmailOf(sess[s].data.email), sess[s].data.user_id))
                    ELSE 0
       IN  sess' = [sess EXCEPT
                ![s].clientId = IF found # 0 THEN found ELSE @,
                ![s].pc = IF found # 0 THEN "check" ELSE "insertClient"]
    /\ UNCHANGED <<bkClients, bkAppts, overlap>>
    /\ UNCHANGED otherThanBooking

InsertClientOk(s) ==
    /\ sess[s].pc = "insertClient"
    /\ LET id == newClientId(bkClients)
       IN  /\ bkClients' = bkClients \cup
                    {[id |-> id, email |-> normalizedEmailOf(sess[s].data.email),
                      user_id |-> sess[s].data.user_id]}
           /\ sess' = [sess EXCEPT ![s].clientId = id, ![s].createdClient = TRUE,
                                   ![s].pc = "check"]
    /\ UNCHANGED <<bkAppts, overlap>>
    /\ UNCHANGED otherThanBooking

InsertClientError(s) ==
    /\ sess[s].pc = "insertClient"
    /\ sess' = Fail(s, "Erro ao criar cliente")
    /\ UNCHANGED <<bkClients, bkAppts, overlap>>
    /\ UNCHANGED otherThanBooking

\* The slot check answered with rows.
SlotCheckAnswered(s) ==
    /\ sess[s].pc = "check"
    /\ LET existing == existingAppointmentsOf(bkAppts, sess[s].data.user_id,
                                              sess[s].data.date)
       IN  sess' = [sess EXCEPT
                ![s].checked = TRUE,
                ![s].atCheck = bkAppts,
                ![s].pc = IF Cardinality(existing) > 0 THEN "done" ELSE "insert",
                ![s].error = IF Cardinality(existing) > 0 THEN "ocupado" ELSE "none"]
    /\ UNCHANGED <<bkClients, bkAppts, overlap>>
    /\ UNCHANGED otherThanBooking

\* The slot check answered with an error.
SlotCheckError(s) ==
    /\ sess[s].pc = "check"
    /\ sess' = Fail(s, "Erro ao verificar")
    /\ UNCHANGED <<bkClients, bkAppts, overlap>>
    /\ UNCHANGED otherThanBooking

InsertBookingOk(s) ==
    /\ sess[s].pc = "insert"
    /\ LET id == newAppointmentId(bkAppts)
       IN  /\ bkAppts' = bkAppts \cup
                    {[id |-> id, user_id |-> sess[s].data.user_id,
                      date |-> sess[s].data.date, status |-> "agendado",
                      client_id |-> sess[s].clientId, by |-> s]}
           /\ sess' = [sess EXCEPT ![s].row = id, ![s].pc = "done"]
    /\ UNCHANGED <<bkClients, overlap>>
    /\ UNCHANGED otherThanBooking

InsertBookingError(s) ==
    /\ sess[s].pc = "insert"
    /\ sess' = Fail(s, "insert")
    /\ UNCHANGED <<bkClients, bkAppts, overlap>>
    /\ UNCHANGED otherThanBooking

BookingIdle ==
    /\ bkClients = {}
    /\ bkAppts = {}
    /\ sess = [s \in Sessions |-> SessIdle]
    /\ overlap = FALSE

(***************************************************************************)
(* Client dashboard (ClientDashboard.tsx): fetchAgendamentos.  The store   *)
(* holds fewer appointments than a page, so each paginated loop is one     *)
(* request; the loops themselves are the paginated fetch above.            *)
(***************************************************************************)
AdminUser == "u1"

\* The session's client object: client.id, client.email.
SessionClient == [id |-> 1, email |-> <<"a">>]

\* booking_clients rows the store may hold.  Ids are unique, so the row of
\* id 1 belongs to one account or the other.
ClientRowUniverse ==
    {[id |-> 1, email |-> <<"a">>, user_id |-> "u1"],
     [id |-> 1, email |-> <<"a">>, user_id |-> "u2"],
     [id |-> 2, email |-> <<"a">>, user_id |-> "u1"],
     [id |-> 3, email |-> <<"a">>, user_id |-> "u1"],
     [id |-> 4, email |-> <<"b">>, user_id |-> "u1"]}

ClientStores ==
    {rows \in SUBSET ClientRowUniverse :
        \A r1 \in rows, r2 \in rows : r1.id = r2.id => r1 = r2}

\* appointments rows of the admin's account, with the joined client email.
DashApptUniverse ==
    {[id |-> 1, client_id |-> 1, email |-> <<"a">>],
     [id |-> 2, client_id |-> 2, email |-> <<"a">>],
     [id |-> 3, client_id |-> 4, email |-> <<"b">>]}

\* ... from booking_clients where id = id and user_id = u
clientsById(rows, id, u) == {r \in rows : r.id = id /\ r.user_id = u}

\* ... from appointments where client_id = id (and user_id = the admin)
appointmentsOfClient(rows, id) == {r.id : r \in {x \in rows : x.client_id = id}}

\* allAltAppointments.filter(apt => apt.client?.email === client.email)
appointmentsOfEmail(rows, email) == {r.id : r \in {x \in rows : x.email = email}}

\* The id the appointment query uses after the email lookup found a record:
\* client.id = clientByEmail.id
fallbackClientId_sessionId(sessionId, clientByEmail) == sessionId

fallbackClientId(sessionId, clientByEmail) == clientByEmail.id

\* sessionId, listBefore: client.id and agendamentos at the call; failed:
\* some request was answered with an error.
FaIdle ==
    [pc |-> "idle", sessionId |-> 0, listBefore |-> {}, requests |-> <<>>,
     failed |-> FALSE]

FaRequest(kind, arg) == [kind |-> kind, arg |-> arg]

\* fetchAgendamentos, up to the lookup by id.
FetchAgendamentosStart ==
    /\ fa.pc \in {"idle", "done"}
    /\ fa' = [pc |-> "idCheck", sessionId |-> faClient.id,
              listBefore |-> agendamentos,
              requests |-> <<FaRequest("client_by_id", faClient.id)>>,
              failed |-> FALSE]
    /\ UNCHANGED <<faClient, faStore, faAppts, agendamentos>>
    /\ UNCHANGED otherThanDash

\* The lookup by id answered.
IdCheckAnswered(ok) ==
    /\ fa.pc = "idCheck"
    /\ LET found == clientsById(faStore, faClient.id, AdminUser)
       IN  fa' = IF ~ok THEN [fa EXCEPT !.pc = "done", !.failed = TRUE]
                 ELSE IF found # {}
                 THEN [fa EXCEPT !.pc = "page",
                        !.requests = Append(@, FaRequest("appointments", faClient.id))]
                 ELSE [fa EXCEPT !.pc = "emailCheck",
                        !.requests = Append(@, FaRequest("client_by_email", faClient.email))]
    /\ UNCHANGED <<faClient, faStore, faAppts, agendamentos>>
    /\ UNCHANGED otherThanDash

\* The lookup by email answered; maybeSingle() answers more than one
\* matching row with an error.
EmailCheckAnswered(ok) ==
    /\ fa.pc = "emailCheck"
    /\ LET found == clientsMatching(faStore, faClient.email, AdminUser)
       IN  IF ~ok \/ Cardinality(found) > 1
           THEN /\ fa' = [fa EXCEPT !.pc = "done", !.failed = TRUE]
                /\ UNCHANGED faClient
           ELSE IF found = {}
           THEN /\ fa' = [fa EXCEPT !.pc = "done"]
                /\ UNCHANGED faClient
           ELSE LET id == fallbackClientId(faClient.id, CHOOSE r \in found : TRUE)
                IN  /\ faClient' = [faClient EXCEPT !.id = id]
                    /\ fa' = [fa EXCEPT !.pc = "page",
                            !.requests = Append(@, FaRequest("appointments", id))]
    /\ UNCHANGED <<faStore, faAppts, agendamentos>>
    /\ UNCHANGED otherThanDash

\* The appointments of the client answered.
ClientPageAnswered(ok) ==
    /\ fa.pc = "page"
    /\ LET data == appointmentsOfClient(faAppts, fa.requests[Len(fa.requests)].arg)
       IN  IF ~ok
           THEN /\ fa' = [fa EXCEPT !.pc = "done", !.failed = TRUE]
                /\ UNCHANGED agendamentos
           ELSE IF data = {}
           THEN /\ fa' = [fa EXCEPT !.pc = "altPage",
                            !.requests = Append(@, FaRequest("appointments_all", 0))]
                /\ UNCHANGED agendamentos
           ELSE /\ fa' = [fa EXCEPT !.pc = "done"]
                /\ agendamentos' = data
    /\ UNCHANGED <<faClient, faStore, faAppts>>
    /\ UNCHANGED otherThanDash

\* The alternative query (all appointments of the account) answered.
AltPageAnswered(ok) ==
    /\ fa.pc = "altPage"
    /\ LET clientAppointments == appointmentsOfEmail(faAppts, faClient.email)
       IN  /\ agendamentos' = IF ok /\ clientAppointments # {}
                              THEN clientAppointments ELSE {}
           /\ fa' = [fa EXCEPT !.pc = "done", !.failed = ~ok]
    /\ UNCHANGED <<faClient, faStore, faAppts>>
    /\ UNCHANGED otherThanDash

DashIdle ==
    /\ faClient = SessionClient
    /\ faStore = {}
    /\ faAppts = {}
    /\ agendamentos = {}
    /\ fa = FaIdle

(***************************************************************************)
(* The two useQuery calls (ClientDashboard.tsx).  A query runs its queryFn *)
(* when a user action triggers it (mount, refetch, invalidation after a    *)
(* mutation); when the queryFn rejects, the query library runs it again    *)
(* by itself as many times as the query's retry option says.               *)
(***************************************************************************)
MaxTriggers == 2

QueryNames == {"useAppointments", "useClientBookings"}

\* The retry count of a query that names none: the application's query
\* client default, which retries nothing.
defaultRetry == 0

\* useQuery({ ..., retry })
retryOf(q) == IF q = "useClientBookings" THEN 1 ELSE defaultRetry

\* triggers: the user actions that started the query; runs: the executions
\* of its queryFn; failureCount: the rejections since the last trigger.
QueryIdle == [pc |-> "idle", failureCount |-> 0, triggers |-> 0, runs |-> 0]

\* A user action starts the query.
QueryTrigger(q) ==
    /\ qry[q].pc # "running"
    /\ qry[q].triggers < MaxTriggers
    /\ qry' = [qry EXCEPT ![q] = [pc |-> "running", failureCount |-> 0,
                                  triggers |-> qry[q].triggers + 1,
                                  runs |-> qry[q].runs + 1]]
    /\ UNCHANGED otherThanQuery

\* The queryFn resolved.
QueryFnResolved(q) ==
    /\ qry[q].pc = "running"
    /\ qry' = [qry EXCEPT ![q].pc = "success"]
    /\ UNCHANGED otherThanQuery

\* The queryFn rejected: the library runs it again while the failure count
\* is below the retry count, and reports the error otherwise.
QueryFnRejected(q) ==
    /\ qry[q].pc = "running"
    /\ qry' = IF qry[q].failureCount < retryOf(q)
              THEN [qry EXCEPT ![q].failureCount = @ + 1, ![q].runs = @ + 1]
              ELSE [qry EXCEPT ![q].failureCount = @ + 1, ![q].pc = "error"]
    /\ UNCHANGED otherThanQuery

QueriesIdle == qry = [q \in QueryNames |-> QueryIdle]

(***************************************************************************)
(* The session.  useAuth().user is the signed-in account; signOut ends the *)
(* session and a sign-in starts the next one, of the same or of another    *)
(* account.  clientsCache and modalitiesCache are private to the module of *)
(* useAppointments, which only reads them and sets an account's entry.     *)
(***************************************************************************)
NoUser == "none"

\* signOut: the session ends; nothing is removed from the caches.
Logout ==
    /\ user # NoUser
    /\ user' = NoUser
    /\ lastUser' = user
    /\ UNCHANGED <<relatedInput, clientsCache, modalitiesCache, remoteRev, frd>>
    /\ UNCHANGED otherThanSession

\* An account signs in.
Login(a) ==
    /\ user = NoUser
    /\ user' = a
    /\ UNCHANGED <<lastUser, relatedInput, clientsCache, modalitiesCache, remoteRev, frd>>
    /\ UNCHANGED otherThanSession

\* The query that resolves related data is enabled only with a user.
SessionFrdStart(c) == user # NoUser /\ FrdStart(c)

SessionIdle == lastUser = NoUser

(***************************************************************************)
(* useClientBookings: cancelBookingMutation and confirmBookingMutation.    *)
(* Each sends one update of the status column, selected by id alone.       *)
(***************************************************************************)
NoStatusMut == [pc |-> "idle", id |-> 0, status |-> "none", outcome |-> "none"]

\* update appointments set status = st where id = id
setStatusById(rows, id, st) ==
    {IF r.id = id THEN [r EXCEPT !.status = st] ELSE r : r \in rows}

\* No portal operation is in flight.
PortalQuiet ==
    /\ \A s \in Sessions : ~InFlight(s)
    /\ statusMut.pc # "request"

\* cancelBookingMutation.mutationFn, up to its await.
CancelBookingStart(id) ==
    /\ statusMut.pc # "request"
    /\ statusMut' = [pc |-> "request", id |-> id, status |-> "cancelado",
                     outcome |-> "none"]
    /\ UNCHANGED <<bookingVars, otherThanPortal>>

\* confirmBookingMutation.mutationFn, up to its await.
ConfirmBookingStart(id) ==
    /\ statusMut.pc # "request"
    /\ statusMut' = [pc |-> "request", id |-> id, status |-> "agendado",
                     outcome |-> "none"]
    /\ UNCHANGED <<bookingVars, otherThanPortal>>

\* The update answered with the one row it changed.
BookingStatusOk ==
    /\ statusMut.pc = "request"
    /\ \E r \in bkAppts : r.id = statusMut.id
    /\ bkAppts' = setStatusById(bkAppts, statusMut.id, statusMut.status)
    /\ statusMut' = [statusMut EXCEPT !.pc = "done", !.outcome = "success"]
    /\ UNCHANGED <<bkClients, sess, overlap, otherThanPortal>>

\* The update answered with an error (single() found no row, or the request
\* failed), which the mutation throws.
BookingStatusError ==
    /\ statusMut.pc = "request"
    /\ statusMut' = [statusMut EXCEPT !.pc = "done", !.outcome = "error"]
    /\ UNCHANGED <<bookingVars, otherThanPortal>>

StatusMutIdle == statusMut = NoStatusMut

(***************************************************************************)
(* Dashboard (DashboardModern.tsx): the week on display.  The effect on    *)
(* currentWeek calls fetchAppointments, which reads the week of its render *)
(* and sets the list when its requests have answered.  A week holds fewer  *)
(* rows than one page here; the page loop is the fetch component's.        *)
(***************************************************************************)
MaxWeekChanges == 3

\* The rows of the appointments table dated in week w, in date order.
weekRows(w) == [i \in 1 .. 1 + (w % 2) |-> [id |-> i, week |-> w]]

NoWeekCalls == [inFlight |-> {}, issued |-> 0, failed |-> FALSE]

\* The call that the effect makes for week w.
nextCall(w) == [n |-> weekCalls.issued + 1, week |-> w]

\* The effect runs when the user is loaded: the first fetch.
WeekMount ==
    /\ weekCalls.issued = 0
    /\ weekCalls' = [weekCalls EXCEPT !.inFlight = {nextCall(currentWeek)},
                                      !.issued = 1]
    /\ UNCHANGED <<currentWeek, weekAppointments, otherThanWeek>>

\* A navigation button: setCurrentWeek(addDays(currentWeek, 7 * delta)); the
\* effect on currentWeek calls fetchAppointments for the new week.
ChangeWeek(delta) ==
    /\ weekCalls.issued \in 1 .. MaxWeekChanges
    /\ currentWeek' = currentWeek + delta
    /\ weekCalls' = [weekCalls EXCEPT !.inFlight = @ \cup {nextCall(currentWeek')},
                                      !.issued = @ + 1]
    /\ UNCHANGED <<weekAppointments, otherThanWeek>>

\* The request of a call answered with the rows of the call's week:
\* setAppointments(processedData).
FetchWeekOk(c) ==
    /\ c \in weekCalls.inFlight
    /\ weekAppointments' = weekRows(c.week)
    /\ weekCalls' = [weekCalls EXCEPT !.inFlight = @ \ {c}]
    /\ UNCHANGED <<currentWeek, otherThanWeek>>

\* The request of a call answered with an error: the toast, the list as it
\* was.
FetchWeekError(c) ==
    /\ c \in weekCalls.inFlight
    /\ weekCalls' = [weekCalls EXCEPT !.inFlight = @ \ {c}, !.failed = TRUE]
    /\ UNCHANGED <<currentWeek, weekAppointments, otherThanWeek>>

WeekIdle ==
    /\ currentWeek = 0
    /\ weekAppointments = <<>>
    /\ weekCalls = NoWeekCalls

(***************************************************************************)
(* ClientDashboard.handleCancelar: the appointment is looked up by the     *)
(* session's client id, then by the admin's account and the joined         *)
(* client's email; when one lookup found it, its status is updated and the *)
(* local list is patched.                                                  *)
(***************************************************************************)
CancelCalls == {1, 2}

\* The appointments table: of the session's client, of another record of the
\* same person (same email), of another client of the account, and of a
\* client with the same email in another account.
CaApptUniverse ==
    {[id |-> 1, client_id |-> 1, user_id |-> "u1", email |-> <<"a">>, status |-> "agendado"],
     [id |-> 2, client_id |-> 2, user_id |-> "u1", email |-> <<"a">>, status |-> "agendado"],
     [id |-> 3, client_id |-> 4, user_id |-> "u1", email |-> <<"b">>, status |-> "pago"],
     [id |-> 4, client_id |-> 5, user_id |-> "u2", email |-> <<"a">>, status |-> "agendado"]}

\* The ids handleCancelar may be called with; 9 is the id of no row.
CancelIds == {r.id : r \in CaApptUniverse} \cup {9}

\* An entry of agendamentos.
listEntry(r) == [id |-> r.id, status |-> r.status]

\* ... from appointments where id = id and client_id = c, maybeSingle()
byClientId(rows, id, c) == {r \in rows : r.id = id /\ r.client_id = c}

\* ... from appointments where id = id and user_id = u, maybeSingle(), kept
\* when allAppointments.client?.email === client?.email
byAccountAndEmail_accountOnly(rows, id, u, email) ==
    {r \in rows : r.id = id /\ r.user_id = u}

byAccountAndEmail(rows, id, u, email) ==
    {r \in rows : r.id = id /\ r.user_id = u /\ r.email = email}

\* prev.map(apt => apt.id === agendamentoId ? { ...apt, status: 'cancelado' } : apt)
markCancelled(list, id) ==
    [i \in 1 .. Len(list) |->
        IF list[i].id = id THEN [list[i] EXCEPT !.status = "cancelado"] ELSE list[i]]

CaIdle == [pc |-> "idle", id |-> 0, foundBy |-> "none", outcome |-> "none"]

\* handleCancelar with the confirm dialog accepted, up to the first lookup.
CancelarStart(k, id) ==
    /\ ca[k].pc \in {"idle", "done"}
    /\ cancelingId' = id
    /\ ca' = [ca EXCEPT ![k] = [pc |-> "byClientId", id |-> id,
                                foundBy |-> "none", outcome |-> "none"]]
    /\ UNCHANGED <<caAppts, caList, otherThanCancel>>

\* The lookup by client id answered: with the row, the update is issued;
\* with no row or an error, the lookup by account.
ByClientIdAnswered(k, ok) ==
    /\ ca[k].pc = "byClientId"
    /\ ca' = [ca EXCEPT ![k] =
                IF ok /\ byClientId(caAppts, ca[k].id, SessionClient.id) # {}
                THEN [@ EXCEPT !.pc = "update", !.foundBy = "client_id"]
                ELSE [@ EXCEPT !.pc = "byEmail"]]
    /\ UNCHANGED <<caAppts, caList, cancelingId, otherThanCancel>>

\* The lookup by account answered: with a row of the session's email, the
\* update is issued; otherwise the alert, and finally setCancelingId(null).
ByEmailAnswered(k, ok) ==
    /\ ca[k].pc = "byEmail"
    /\ IF ok /\ byAccountAndEmail(caAppts, ca[k].id, AdminUser, SessionClient.email) # {}
       THEN /\ ca' = [ca EXCEPT ![k] = [@ EXCEPT !.pc = "update", !.foundBy = "email"]]
            /\ UNCHANGED cancelingId
       ELSE /\ ca' = [ca EXCEPT ![k] = [@ EXCEPT !.pc = "done", !.outcome = "not found"]]
            /\ cancelingId' = 0
    /\ UNCHANGED <<caAppts, caList, otherThanCancel>>

\* The update answered without error: the list is patched.
CancelarUpdateOk(k) ==
    /\ ca[k].pc = "update"
    /\ caAppts' = setStatusById(caAppts, ca[k].id, "cancelado")
    /\ caList' = markCancelled(caList, ca[k].id)
    /\ cancelingId' = 0
    /\ ca' = [ca EXCEPT ![k] = [@ EXCEPT !.pc = "done", !.outcome = "success"]]
    /\ UNCHANGED otherThanCancel

\* The update answered with an error: the alert.
CancelarUpdateError(k) ==
    /\ ca[k].pc = "update"
    /\ cancelingId' = 0
    /\ ca' = [ca EXCEPT ![k] = [@ EXCEPT !.pc = "done", !.outcome = "error"]]
    /\ UNCHANGED <<caAppts, caList, otherThanCancel>>

CancelIdle ==
    /\ caAppts = {}
    /\ caList = <<>>
    /\ cancelingId = 0
    /\ ca = [k \in CancelCalls |-> CaIdle]

(***************************************************************************)
(* ClientDashboard: the two tabs.  Each render filters agendamentos twice, *)
(* and each filter callback reads the clock for itself.                    *)
(***************************************************************************)
\* date-fns isAfter(a, b).
isAfter(a, b) == a > b

\* The callback of agendamentosFuturos, with its clock reading.
isFuturo(apt, now) == isAfter(apt.date, now) /\ apt.status # "cancelado"

\* The callback of agendamentosPassados, with its clock reading.
isPassado(apt, now) == isBefore(apt.date, now) \/ apt.status = "cancelado"

NoTabs == [rendered |-> FALSE]

\* One render: the appointment goes through the first filter at clock
\* reading now1 and through the second at now2, which is not earlier.
RenderTabs(apt, now1, now2) ==
    /\ ~tabs.rendered
    /\ now1 <= now2
    /\ tabs' = [rendered |-> TRUE, apt |-> apt, now1 |-> now1, now2 |-> now2,
                futuros  |-> isFuturo(apt, now1),
                passados |-> isPassado(apt, now2)]
    /\ UNCHANGED otherThanTabs

TabsIdle == tabs = NoTabs

ListIdle == apptQuery = NoQueryData

PagesIdle ==
    DeleteIdle /\ BookingIdle /\ DashIdle /\ QueriesIdle /\ SessionIdle /\ ListIdle /\ StatusMutIdle /\ WeekIdle /\ CancelIdle /\ TabsIdle

(***************************************************************************)
(* Specifications                                                          *)
(***************************************************************************)
Init ==
    /\ cell = NoCell
    /\ finInput = <<>>
    /\ finSummary = <<>>
    /\ apptStore = <<>>
    /\ mut = Idle
    /\ modCache = {}
    /\ user = "u1"
    /\ clientsCache = NoCaches
    /\ modalitiesCache = NoCaches
    /\ remoteRev = 0
    /\ relatedInput = <<>>
    /\ frd = [c \in CallIds |-> FrdIdle]
    /\ fetcher = "useAppointments"
    /\ storeCount = 0
    /\ fetch = NoFetch
    /\ listData = <<>>
    /\ PagesIdle

NextStatus ==
    \E status \in RawStatuses, date \in Dates \cup {NoDate},
       recurrence_id \in RecurrenceIds, is_cortesia \in OptBool, now \in Dates :
        RenderCell(status, date, recurrence_id, is_cortesia, now)

SpecStatus == Init /\ [][NextStatus]_vars

NextFin ==
    \/ \E a \in FinAppointments : FinAppend(a)
    \/ FinSummarize

SpecFin == Init /\ [][NextFin]_vars

\* The mutations start with any part of the account's modalities cached.
InitAppt ==
    /\ cell = NoCell
    /\ finInput = <<>>
    /\ finSummary = <<>>
    /\ apptStore = <<>>
    /\ mut = Idle
    /\ modCache \in SUBSET ModalityIds
    /\ user = "u1"
    /\ clientsCache = NoCaches
    /\ modalitiesCache = NoCaches
    /\ remoteRev = 0
    /\ relatedInput = <<>>
    /\ frd = [c \in CallIds |-> FrdIdle]
    /\ fetcher = "useAppointments"
    /\ storeCount = 0
    /\ fetch = NoFetch
    /\ listData = <<>>
    /\ PagesIdle

NextAppt ==
    \/ \E data \in CreateInputs : CreateStart(data)
    \/ CreateModalityFound
    \/ CreateModalityError
    \/ \E dflt \in ColumnDefaults : CreateInsertOk(dflt)
    \/ CreateInsertError
    \/ \E id \in 1 .. MaxRows + 1, data \in UpdateInputs : UpdateStart(id, data)
    \/ UpdateModalityFound
    \/ UpdateModalityError
    \/ UpdateWriteOk
    \/ UpdateWriteError

SpecAppt == InitAppt /\ [][NextAppt]_vars

\* The resolve calls of one session, of either account, on one appointment
\* list; the account's client cache holds what earlier calls left in it.
InitCache ==
    /\ cell = NoCell
    /\ finInput = <<>>
    /\ finSummary = <<>>
    /\ apptStore = <<>>
    /\ mut = Idle
    /\ modCache = {}
    /\ user \in Accounts
    /\ relatedInput \in RelatedInputs
    /\ clientsCache \in {[NoCaches EXCEPT ![user] = m] : m \in CachedClientMaps(user)}
    /\ modalitiesCache = NoCaches
    /\ remoteRev = 0
    /\ frd = [c \in CallIds |-> FrdIdle]
    /\ fetcher = "useAppointments"
    /\ storeCount = 0
    /\ fetch = NoFetch
    /\ listData = <<>>
    /\ PagesIdle

NextCache ==
    \/ \E c \in CallIds : FrdStart(c)
    \/ \E c \in CallIds, clientsOk \in BOOLEAN, modalitiesOk \in BOOLEAN :
            FrdFinish(c, clientsOk, modalitiesOk)
    \/ RemoteEdit

SpecCache == InitCache /\ [][NextCache]_vars

\* The fetches of one component, one after another, each against the
\* collection as it then is.
InitFetch ==
    /\ cell = NoCell
    /\ finInput = <<>>
    /\ finSummary = <<>>
    /\ apptStore = <<>>
    /\ mut = Idle
    /\ modCache = {}
    /\ user = "u1"
    /\ relatedInput = <<>>
    /\ clientsCache = NoCaches
    /\ modalitiesCache = NoCaches
    /\ remoteRev = 0
    /\ frd = [c \in CallIds |-> FrdIdle]
    /\ fetcher \in Fetchers
    /\ storeCount = 0
    /\ fetch = NoFetch
    /\ listData = <<>>
    /\ PagesIdle

NextFetch ==
    \/ \E n \in RecordCounts : StartFetch(n)
    \/ PageOk
    \/ PageError
    \/ RelatedResolved
    \/ BookingClientsOk
    \/ BookingClientsError

SpecFetch == InitFetch /\ [][NextFetch]_vars

\* The sizes the collection may change to during a fetch: emptied, one
\* page, beyond the page cap.
ChangedCounts == {0, pageSize, maxPages * pageSize + Slack}

\* The fetch of the appointments hook and of the dashboard page, against a
\* collection that changes while the fetch runs.
InitFetchAny ==
    /\ InitFetch
    /\ fetcher \in {"useAppointments", "fetchAppointments"}

NextFetchAny ==
    \/ \E n \in RecordCounts : StartFetch(n)
    \/ PageOk
    \/ PageError
    \/ RelatedResolved
    \/ \E n \in ChangedCounts : StoreChange(n)

SpecFetchAny == InitFetchAny /\ [][NextFetchAny]_vars

\* The Clients page with the clients loaded, over any store content, and the
\* delete mutation of the appointments hook.
InitDelete ==
    /\ cell = NoCell
    /\ finInput = <<>>
    /\ finSummary = <<>>
    /\ apptStore = <<>>
    /\ mut = Idle
    /\ modCache = {}
    /\ user = "u1"
    /\ relatedInput = <<>>
    /\ clientsCache = NoCaches
    /\ modalitiesCache = NoCaches
    /\ remoteRev = 0
    /\ frd = [c \in CallIds |-> FrdIdle]
    /\ fetcher = "useAppointments"
    /\ storeCount = 0
    /\ fetch = NoFetch
    /\ listData = <<>>
    /\ dbAppts \in SUBSET ApptRowUniverse
    /\ dbClients = PageClients
    /\ clients = PageClients
    /\ modal = ModalClosed
    /\ loads = {}
    /\ del = DelIdle
    /\ dm = DmIdle
    /\ BookingIdle
    /\ DashIdle
    /\ QueriesIdle
    /\ SessionIdle
    /\ TabsIdle
    /\ CancelIdle
    /\ WeekIdle
    /\ StatusMutIdle
    /\ ListIdle

NextDelete ==
    \/ \E c \in PageClients : OpenDeleteModal(c)
    \/ \E c \in PageClients : LoadAppointmentsOk(c)
    \/ \E c \in PageClients : LoadAppointmentsError(c)
    \/ \E t \in ConfirmTexts : TypeConfirmName(t)
    \/ CloseDeleteModal
    \/ ClickDelete
    \/ DeleteApptsOk
    \/ DeleteApptsError
    \/ DeleteClientOk
    \/ DeleteClientError
    \/ \E id \in RowIds : DeleteAppointmentStart(id)
    \/ DeleteAppointmentOk
    \/ DeleteAppointmentError

SpecDelete == InitDelete /\ [][NextDelete]_vars

\* Two portal sessions, each booking once, over a store that may hold a
\* client and an appointment in one slot.
InitBooking ==
    /\ cell = NoCell
    /\ finInput = <<>>
    /\ finSummary = <<>>
    /\ apptStore = <<>>
    /\ mut = Idle
    /\ modCache = {}
    /\ user = "u1"
    /\ relatedInput = <<>>
    /\ clientsCache = NoCaches
    /\ modalitiesCache = NoCaches
    /\ remoteRev = 0
    /\ frd = [c \in CallIds |-> FrdIdle]
    /\ fetcher = "useAppointments"
    /\ storeCount = 0
    /\ fetch = NoFetch
    /\ listData = <<>>
    /\ DeleteIdle
    /\ bkClients \in {{}, {KnownClient}}
    /\ bkAppts \in {{}} \cup {{r} : r \in SlotRows}
    /\ sess = [s \in Sessions |-> SessIdle]
    /\ overlap = FALSE
    /\ DashIdle
    /\ QueriesIdle
    /\ SessionIdle
    /\ TabsIdle
    /\ CancelIdle
    /\ WeekIdle
    /\ StatusMutIdle
    /\ ListIdle

NextBooking ==
    \/ \E s \in Sessions, data \in BookingInputs : BookStart(s, data)
    \/ \E s \in Sessions, ok \in BOOLEAN : LookupAnswered(s, ok)
    \/ \E s \in Sessions : InsertClientOk(s)
    \/ \E s \in Sessions : InsertClientError(s)
    \/ \E s \in Sessions : SlotCheckAnswered(s)
    \/ \E s \in Sessions : SlotCheckError(s)
    \/ \E s \in Sessions : InsertBookingOk(s)
    \/ \E s \in Sessions : InsertBookingError(s)

SpecBooking == InitBooking /\ [][NextBooking]_vars

\* The bookings of a client known to the portal, in either slot.
PortalInputs ==
    {d \in BookingInputs :
        d.user_id = "u1" /\ d.client_id = KnownClient.id /\ d.email = NoEmail}

\* The portal's operations run one at a time: an operation starts only when
\* none is in flight.
NextPortal ==
    \/ \E s \in Sessions, data \in PortalInputs : PortalQuiet /\ BookStart(s, data)
    \/ \E s \in Sessions : SlotCheckAnswered(s)
    \/ \E s \in Sessions : SlotCheckError(s)
    \/ \E s \in Sessions : InsertBookingOk(s)
    \/ \E s \in Sessions : InsertBookingError(s)
    \/ \E id \in {r.id : r \in bkAppts} \cup {0} : PortalQuiet /\ CancelBookingStart(id)
    \/ \E id \in {r.id : r \in bkAppts} \cup {0} : PortalQuiet /\ ConfirmBookingStart(id)
    \/ BookingStatusOk
    \/ BookingStatusError

SpecPortal == InitBooking /\ [][NextPortal]_vars

\* The dashboard from its mount, through a few changes of the week.
WeekCallIds == 1 .. MaxWeekChanges + 1
WeekCallUniverse ==
    [n : WeekCallIds, week : (0 - MaxWeekChanges) .. MaxWeekChanges]

NextWeek ==
    \/ WeekMount
    \/ \E delta \in {-1, 1} : ChangeWeek(delta)
    \/ \E c \in WeekCallUniverse : FetchWeekOk(c)
    \/ \E c \in WeekCallUniverse : FetchWeekError(c)

SpecWeek == Init /\ [][NextWeek]_vars

\* The lists the client dashboard may show: the client's appointments, alone
\* or with another client's.
CancelLists ==
    LET row(i) == CHOOSE r \in CaApptUniverse : r.id = i
    IN  {<<>>,
         <<listEntry(row(1)), listEntry(row(2))>>,
         <<listEntry(row(3)), listEntry(row(1)), listEntry(row(2))>>}

\* The client dashboard of one session with its list loaded, over the table.
InitCancel ==
    /\ cell = NoCell
    /\ finInput = <<>>
    /\ finSummary = <<>>
    /\ apptStore = <<>>
    /\ mut = Idle
    /\ modCache = {}
    /\ user = "u1"
    /\ clientsCache = NoCaches
    /\ modalitiesCache = NoCaches
    /\ remoteRev = 0
    /\ relatedInput = <<>>
    /\ frd = [c \in CallIds |-> FrdIdle]
    /\ fetcher = "useAppointments"
    /\ storeCount = 0
    /\ fetch = NoFetch
    /\ listData = <<>>
    /\ DeleteIdle
    /\ BookingIdle
    /\ DashIdle
    /\ QueriesIdle
    /\ SessionIdle
    /\ TabsIdle
    /\ WeekIdle
    /\ StatusMutIdle
    /\ ListIdle
    /\ caAppts = CaApptUniverse
    /\ caList \in CancelLists
    /\ cancelingId = 0
    /\ ca = [k \in CancelCalls |-> CaIdle]

NextCancel ==
    \/ \E k \in CancelCalls, id \in CancelIds : CancelarStart(k, id)
    \/ \E k \in CancelCalls, ok \in BOOLEAN : ByClientIdAnswered(k, ok)
    \/ \E k \in CancelCalls, ok \in BOOLEAN : ByEmailAnswered(k, ok)
    \/ \E k \in CancelCalls : CancelarUpdateOk(k)
    \/ \E k \in CancelCalls : CancelarUpdateError(k)

SpecCancel == InitCancel /\ [][NextCancel]_vars

\* The appointments the client dashboard may have fetched.
TabAppointments == [date : Dates, status : Statuses]

NextTabs ==
    \E apt \in TabAppointments, now1 \in Dates, now2 \in Dates :
        RenderTabs(apt, now1, now2)

SpecTabs == Init /\ [][NextTabs]_vars

\* The client dashboard of one session, over any content of the store and
\* with or without appointments already listed.
InitDash ==
    /\ cell = NoCell
    /\ finInput = <<>>
    /\ finSummary = <<>>
    /\ apptStore = <<>>
    /\ mut = Idle
    /\ modCache = {}
    /\ user = "u1"
    /\ relatedInput = <<>>
    /\ clientsCache = NoCaches
    /\ modalitiesCache = NoCaches
    /\ remoteRev = 0
    /\ frd = [c \in CallIds |-> FrdIdle]
    /\ fetcher = "useAppointments"
    /\ storeCount = 0
    /\ fetch = NoFetch
    /\ listData = <<>>
    /\ DeleteIdle
    /\ BookingIdle
    /\ faClient = SessionClient
    /\ faStore \in ClientStores
    /\ faAppts \in SUBSET DashApptUniverse
    /\ agendamentos \in {{}, {1}}
    /\ fa = FaIdle
    /\ QueriesIdle
    /\ SessionIdle
    /\ TabsIdle
    /\ CancelIdle
    /\ WeekIdle
    /\ StatusMutIdle
    /\ ListIdle

NextDash ==
    \/ FetchAgendamentosStart
    \/ \E ok \in BOOLEAN : IdCheckAnswered(ok)
    \/ \E ok \in BOOLEAN : EmailCheckAnswered(ok)
    \/ \E ok \in BOOLEAN : ClientPageAnswered(ok)
    \/ \E ok \in BOOLEAN : AltPageAnswered(ok)

SpecDash == InitDash /\ [][NextDash]_vars

\* The two queries, each started by user actions and settled by its queryFn.
NextQuery ==
    \/ \E q \in QueryNames : QueryTrigger(q)
    \/ \E q \in QueryNames : QueryFnResolved(q)
    \/ \E q \in QueryNames : QueryFnRejected(q)

SpecQuery == Init /\ [][NextQuery]_vars

\* The resolve calls over sessions that end and start.
NextSession ==
    \/ \E c \in CallIds : SessionFrdStart(c)
    \/ \E c \in CallIds, clientsOk \in BOOLEAN, modalitiesOk \in BOOLEAN :
            FrdFinish(c, clientsOk, modalitiesOk)
    \/ Logout
    \/ \E a \in Accounts : Login(a)

SpecSession == InitCache /\ [][NextSession]_vars

\* The row that an earlier create of the session left in the table.
EarlierRow ==
    storedRow(insertPayload([modality_id |-> "m1", is_cortesia |-> "false",
                             customValue |-> Null], modalityValor("m1")), Null)

\* The appointment objects of the account's rows in the table.
ownObjects(store, rows, u) ==
    {apptObject(rowId(i), store[i]) : i \in DOMAIN store}
        \cup {apptObject(r.id, r) : r \in {x \in rows : x.user_id = u}}

\* The lists a fetch may have left in the query cache: the account's rows,
\* or some of them when rows were added since, in the order of their dates
\* (which is here the order of the ids).
fetchedLists(objects) ==
    {q \in seqsUpTo(objects, Cardinality(objects)) :
        \A i \in DOMAIN q : \A j \in DOMAIN q : i < j => q[i].id < q[j].id}

\* The inputs of the mutations that the patch is followed with: the creates
\* of a priced appointment, the updates of the modality.
PatchCreateInputs ==
    {d \in CreateInputs : d.is_cortesia = "false" /\ d.customValue = Null}
PatchUpdateInputs ==
    {d \in UpdateInputs : d.valor_total = Undefined /\ d.status = "undefined"}

\* The three mutations of useAppointments over the table and the query
\* cache entry, from a list that is not loaded or that a fetch has loaded.
InitPatch ==
    /\ cell = NoCell
    /\ finInput = <<>>
    /\ finSummary = <<>>
    /\ apptStore \in {<<>>, <<EarlierRow>>}
    /\ mut = Idle
    /\ modCache = {"m2"}
    /\ user = "u1"
    /\ relatedInput = <<>>
    /\ clientsCache = NoCaches
    /\ modalitiesCache = NoCaches
    /\ remoteRev = 0
    /\ frd = [c \in CallIds |-> FrdIdle]
    /\ fetcher = "useAppointments"
    /\ storeCount = 0
    /\ fetch = NoFetch
    /\ listData = <<>>
    /\ dbAppts = ApptRowUniverse
    /\ dbClients = PageClients
    /\ clients = PageClients
    /\ modal = ModalClosed
    /\ loads = {}
    /\ del = DelIdle
    /\ dm = DmIdle
    /\ BookingIdle
    /\ DashIdle
    /\ QueriesIdle
    /\ SessionIdle
    /\ TabsIdle
    /\ CancelIdle
    /\ WeekIdle
    /\ StatusMutIdle
    /\ \E q \in fetchedLists(ownObjects(apptStore, dbAppts, user)) :
            apptQuery \in {NoQueryData,
                           [hasData |-> TRUE, data |-> q, isInvalidated |-> FALSE]}

NextPatch ==
    \/ \E data \in PatchCreateInputs : CreateStart(data)
    \/ CreateModalityFound
    \/ CreateModalityError
    \/ \E dflt \in ColumnDefaults : CreateInsertOk(dflt)
    \/ CreateInsertError
    \/ \E id \in 1 .. MaxRows + 1, data \in PatchUpdateInputs : UpdateStart(id, data)
    \/ UpdateModalityFound
    \/ UpdateModalityError
    \/ UpdateWriteOk
    \/ UpdateWriteError
    \/ \E id \in RowIds : DeleteAppointmentStart(id)
    \/ DeleteAppointmentOk
    \/ DeleteAppointmentError

SpecPatch == InitPatch /\ [][NextPatch]_vars






(***************************************************************************)
(* Claims: status derivation                                               *)
(***************************************************************************)
CortesiaColor == "bg-pink-100 text-pink-800 border-pink-200"
ACobrarColor == "bg-red-100 text-red-800 border-red-200"
AgendadoColors ==
    {"bg-blue-100 text-blue-800 border-blue-200",
     "bg-purple-100 text-purple-800 border-purple-200"}

\* C8: for every raw status, date and recurrence flag, a rendered appointment
\* whose complimentary flag is set gets the 'cortesia' color from
\* getStatusColor and the 'Cortesia' label from getStatusLabel.
C8_CortesiaAlwaysCortesia ==
    (cell.rendered /\ Truthy(cell.is_cortesia))
        => (cell.color = CortesiaColor /\ cell.label = "Cortesia")

\* C9: a non-complimentary appointment with raw status 'agendado' and a date
\* gets the 'a_cobrar' label and color exactly when the day of its date is
\* strictly before the day of the clock reading; otherwise it keeps the
\* 'agendado' label and an 'agendado' color.
C9_PastDueScheduled ==
    (cell.rendered /\ ~Truthy(cell.is_cortesia) /\ cell.status = "agendado"
     /\ cell.date # NoDate)
        => IF (cell.date \div TicksPerDay) < (cell.now \div TicksPerDay)
           THEN cell.label = "A Cobrar" /\ cell.color = ACobrarColor
           ELSE cell.label = "Agendado" /\ cell.color \in AgendadoColors

\* C9 witness: an 'agendado' appointment dated on an earlier day than the
\* clock reading has been rendered as 'A Cobrar'.
C9_Witness ==
    /\ cell.rendered
    /\ ~Truthy(cell.is_cortesia)
    /\ cell.status = "agendado"
    /\ cell.date # NoDate
    /\ (cell.date \div TicksPerDay) < (cell.now \div TicksPerDay)
    /\ cell.label = "A Cobrar"

(***************************************************************************)
(* Claims: financial aggregation                                           *)
(***************************************************************************)
RECURSIVE SumValor(_, _)
\* The sum of valor_total (a missing value counted as 0) over the positions
\* idx of the list l.
SumValor(l, idx) ==
    IF idx = {} THEN 0
    ELSE LET i == CHOOSE j \in idx : TRUE
             v == l[i].valor_total
         IN  (IF v = Null THEN 0 ELSE v) + SumValor(l, idx \ {i})

WithStatus(l, st) == {i \in DOMAIN l : l[i].status = st}

\* C10: the summary's total and count for each of pago, a_cobrar, agendado
\* and cancelado are the sum of valor_total (missing counted as 0) and the
\* number of the listed appointments with that raw status; appointments with
\* another status add to nothing.
C10_FinancialSummary ==
    finSummary # <<>> =>
        LET s == finSummary[1]
            l == finInput
        IN  /\ s.total_recebido = SumValor(l, WithStatus(l, "pago"))
            /\ s.agendamentos_pagos = Cardinality(WithStatus(l, "pago"))
            /\ s.total_pendente = SumValor(l, WithStatus(l, "a_cobrar"))
            /\ s.agendamentos_pendentes = Cardinality(WithStatus(l, "a_cobrar"))
            /\ s.total_agendado = SumValor(l, WithStatus(l, "agendado"))
            /\ s.agendamentos_agendados = Cardinality(WithStatus(l, "agendado"))
            /\ s.total_cancelado = SumValor(l, WithStatus(l, "cancelado"))
            /\ s.agendamentos_cancelados = Cardinality(WithStatus(l, "cancelado"))

\* C10 witness: a summary was computed over a list holding a paid amount, a
\* pending appointment without a value and an appointment of another status.
C10_Witness ==
    /\ finSummary # <<>>
    /\ \E i, j, k \in DOMAIN finInput :
        /\ finInput[i].status = "pago" /\ finInput[i].valor_total = 100
        /\ finInput[j].status = "a_cobrar" /\ finInput[j].valor_total = Null
        /\ finInput[k].status = "cortesia" /\ finInput[k].valor_total = 50
    /\ finSummary[1].total_recebido = 100
    /\ finSummary[1].agendamentos_pendentes = 1

(***************************************************************************)
(* Claims: appointment mutations                                           *)
(***************************************************************************)
\* C5: in every state reached by create and update operations, every stored
\* appointment whose complimentary flag is set has value 0.
C5_CortesiaValueZero ==
    \A i \in DOMAIN apptStore :
        apptStore[i].is_cortesia => apptStore[i].valor_total = 0

\* C6: a create with the complimentary flag not set persists the override
\* value when one is provided, and the modality's price when the override is
\* null or omitted.
C6_CreateValue ==
    (mut.pc = "created" /\ ~Truthy(mut.data.is_cortesia))
        => apptStore[mut.id].valor_total =
             (IF mut.data.customValue \notin {Null, Undefined}
              THEN mut.data.customValue
              ELSE modalityValor(mut.data.modality_id))

\* C7: a create with the complimentary flag set persists value 0, for every
\* modality price and every override value.
C7_CortesiaCreateZero ==
    (mut.pc = "created" /\ Truthy(mut.data.is_cortesia))
        => apptStore[mut.id].valor_total = 0

\* C7 witness: a complimentary create with an override of 50 on the modality
\* priced 120 has been persisted.
C7_Witness ==
    /\ mut.pc = "created"
    /\ Truthy(mut.data.is_cortesia)
    /\ mut.data.customValue = 50
    /\ mut.data.modality_id = "m1"
    /\ modalityValor("m1") = 120
    /\ apptStore[mut.id].is_cortesia
    /\ apptStore[mut.id].valor_total = 0

(***************************************************************************)
(* Claims: related-entity cache                                            *)
(***************************************************************************)
\* The ids of a table that the appointment list refers to.
ReferredIds(table) ==
    {IF table = "booking_clients" THEN relatedInput[i].client_id
     ELSE relatedInput[i].modality_id : i \in DOMAIN relatedInput} \ {"null"}

\* The part of the account's cache for a table that a call read.
CachedOf(call, table) ==
    IF table = "booking_clients" THEN call.cachedClients ELSE call.cachedModalities

\* The map for a table that a call returned.
ReturnedOf(call, table) ==
    IF table = "booking_clients" THEN call.clientsMap ELSE call.modalitiesMap

Tables == {"booking_clients", "modalities"}

\* C4: a resolve call requests, per entity kind, exactly the distinct
\* referred ids that are not in the account's cache: one select per kind,
\* each id once, no select when none is missing.  It returns the cached
\* records as they are, so a second call made on the cache the first one left
\* requests none of the ids the first one returned and returns the same
\* records for them.
C4_ResolveFetchesOnlyMissing ==
    /\ \A c \in CallIds : frd[c].pc # "idle" =>
        \A table \in Tables :
            LET call == frd[c]
                missing == ReferredIds(table) \ DOMAIN CachedOf(call, table)
                sent == {r \in call.requests : r.table = table}
            IN  /\ Cardinality(sent) = (IF missing = {} \/ relatedInput = <<>> THEN 0 ELSE 1)
                /\ \A r \in sent :
                    /\ Range(r.ids) = missing
                    /\ Len(r.ids) = Cardinality(missing)
                /\ call.pc = "done" =>
                    \A id \in DOMAIN CachedOf(call, table) :
                        relatedInput # <<>> =>
                            /\ id \in DOMAIN ReturnedOf(call, table)
                            /\ ReturnedOf(call, table)[id] = CachedOf(call, table)[id]
    /\ \A c, d \in CallIds :
        (/\ c < d
         /\ frd[c].pc = "done"
         /\ frd[d].pc = "done"
         /\ \A table \in Tables : CachedOf(frd[d], table) = ReturnedOf(frd[c], table))
            => \A table \in Tables : \A id \in DOMAIN ReturnedOf(frd[c], table) :
                /\ \A r \in frd[d].requests : r.table = table => id \notin Range(r.ids)
                /\ relatedInput # <<>> =>
                    ReturnedOf(frd[d], table)[id] = ReturnedOf(frd[c], table)[id]

\* C4 witness: a list naming client c1 twice was resolved twice; the first
\* call requested c1 once, the remote record was edited, and the second call
\* requested nothing and returned the same record of c1.
C4_Witness ==
    /\ Len(relatedInput) = 2
    /\ relatedInput[1].client_id = "c1"
    /\ relatedInput[2].client_id = "c1"
    /\ frd[1].pc = "done"
    /\ frd[2].pc = "done"
    /\ [table |-> "booking_clients", ids |-> <<"c1">>] \in frd[1].requests
    /\ frd[2].requests = {}
    /\ remoteRev = 1
    /\ "c1" \in DOMAIN frd[1].clientsMap
    /\ frd[1].clientsMap["c1"].rev = 0
    /\ frd[2].clientsMap = frd[1].clientsMap

(***************************************************************************)
(* Claims: paginated fetching                                              *)
(***************************************************************************)
RECURSIVE SumSeq(_)
SumSeq(q) == IF q = <<>> THEN 0 ELSE Head(q) + SumSeq(Tail(q))

\* C1: a fetch whose requests all succeeded returns the first
\* min(n, maxPages * pageSize) of the n matching records in the query's sort
\* order, and as many records as the fetched pages held together.
C1_FetchReturnsFirstRecords ==
    (fetch.pc = "done" /\ ~fetch.error /\ ~fetch.clientsError) =>
        LET cap == maxPages * pageSize
            expected == IF storeCount < cap THEN storeCount ELSE cap
        IN  /\ fetch.outcome = "success"
            /\ Len(listData) = expected
            /\ \A i \in 1 .. Len(listData) : listData[i].id = i
            /\ Len(listData) = SumSeq(fetch.pageLens)

\* C1 witness: useAppointments has fetched a collection of more records than
\* the cap in ten full pages.
C1_Witness ==
    /\ fetcher = "useAppointments"
    /\ fetch.pc = "done"
    /\ ~fetch.error
    /\ storeCount = maxPages * pageSize + 1
    /\ Len(fetch.pageLens) = maxPages
    /\ Len(listData) = maxPages * pageSize
    /\ listData[Len(listData)].id = maxPages * pageSize

\* C2: once a page request has failed, the fetch has issued no request after
\* the failing one, and the records of the earlier pages are dropped: the
\* component's list is the list it had before the fetch (for
\* useClientBookings, whose function returns [], the empty list).
C2_FailedFetchDiscardsPartial ==
    fetch.error =>
        /\ fetch.pc = "done"
        /\ Len(fetch.requests) = Len(fetch.pageLens) + 1
        /\ listData = (IF fetcher = "useClientBookings" THEN <<>> ELSE fetch.listBefore)

\* C2 witness: Dashboard.fetchAppointments failed on its second page with an
\* earlier result on display, which is still the list.
C2_Witness ==
    /\ fetcher = "fetchAppointments"
    /\ fetch.error
    /\ Len(fetch.requests) = 2
    /\ Len(fetch.allAppointments) = pageSize
    /\ Len(fetch.listBefore) = 1
    /\ listData = fetch.listBefore

\* C3: a fetch in which a page request failed ends as a failure surfaced to
\* the user (a thrown error or a toast), never as a success; and a fetch that
\* ends as a success with an empty list is one whose requests all succeeded
\* and matched no record.
C3_FailedFetchSurfaced ==
    /\ (fetch.pc = "done" /\ fetch.error) => fetch.outcome \in {"thrown", "toast"}
    /\ (fetch.pc = "done" /\ fetch.outcome = "success" /\ listData = <<>>)
            => (~fetch.error /\ ~fetch.clientsError /\ storeCount = 0)

(***************************************************************************)
(* Client deletion                                                         *)
(***************************************************************************)
\* C11: whenever the delete button of the dialog is enabled for a client
\* that has at least one appointment in the store, the confirmation text
\* equals the client's name.
C11_DeleteNeedsExactName ==
    (~deleteDisabled(modal)
        /\ selectByClient(dbAppts, modal.clientToDelete, user) # {})
    => modal.confirmClientName = clientName(modal.clientToDelete)

\* C12: deleting a client that has appointments sends the appointment
\* delete before the client delete, sends no client delete after a failed
\* appointment delete, and after a successful client delete no appointment
\* of that client is left in the store.
C12_CascadeDelete ==
    /\ (del.hadRows /\ del.requests # <<>> /\ ~del.apptsFailed)
            => del.requests[1] = "appointments"
    /\ del.apptsFailed => del.requests = <<"appointments">>
    /\ del.outcome = "success"
            => selectByClient(dbAppts, del.target, user) = {}

\* The step in which handleDeleteClient's appointment delete took effect.
CascadeStep == del.pc = "delAppts" /\ del'.pc = "delClient"

\* The step in which the delete mutation's request took effect.
DeleteMutationStep == dm.pc = "request" /\ dm'.pc = "done" /\ dm'.outcome = "success"

\* C15 (as stated): an appointment row leaves the store only in the
\* cascade of a client delete.
C15_OnlyCascadeDeletes ==
    [][(dbAppts \ dbAppts' # {}) => CascadeStep]_vars

\* C15 (amended): an appointment row leaves the store only in the cascade
\* of a client delete, as a row of that client and of the session's
\* account, or by the delete mutation, as the row with the id it was given
\* and of the session's account.
C15_OnlyExplicitDeletes ==
    [][\A r \in dbAppts \ dbAppts' :
            \/ CascadeStep /\ r.client_id = del.target /\ r.user_id = user
            \/ DeleteMutationStep /\ r.id = dm.id /\ r.user_id = user]_vars

C15_Witness ==
    /\ dm.outcome = "success"
    /\ dm.removed # {}
    /\ ForeignRow \in dbAppts


(***************************************************************************)
(* Online booking                                                          *)
(***************************************************************************)
\* The rows that occupied the slot of session s's booking when its slot
\* check was answered: same account, same date-time, not cancelled.
BlockingAtCheck(s) ==
    {r \in sess[s].atCheck :
        /\ r.user_id = sess[s].data.user_id
        /\ r.date = sess[s].data.date
        /\ r.status # "cancelado"}

RowsBy(s) == {r \in bkAppts : r.by = s}

\* C13: a booking inserts its appointment only after its slot check was
\* answered with no non-cancelled appointment of the account at the same
\* date-time; when the check finds one, or errors, the booking fails and
\* inserts nothing; a booking is refused as occupied only because of a
\* non-cancelled appointment.
C13_InsertOnlyAfterSlotCheck ==
    \A s \in Sessions :
        /\ (sess[s].pc = "insert" \/ sess[s].row # 0)
                => (sess[s].checked /\ BlockingAtCheck(s) = {})
        /\ (sess[s].checked /\ BlockingAtCheck(s) # {})
                => (sess[s].pc = "done" /\ sess[s].error = "ocupado")
        /\ sess[s].error \in {"ocupado", "Erro ao verificar"}
                => (sess[s].pc = "done" /\ sess[s].row = 0 /\ RowsBy(s) = {})
        /\ sess[s].error = "ocupado" => BlockingAtCheck(s) # {}
        /\ sess[s].row # 0 => RowsBy(s) = {r \in bkAppts : r.id = sess[s].row}

C13_Witness ==
    \E s \in Sessions, t \in Sessions :
        /\ sess[s].row # 0
        /\ \E r \in sess[s].atCheck :
                /\ r.user_id = sess[s].data.user_id
                /\ r.date = sess[s].data.date
                /\ r.status = "cancelado"
        /\ sess[t].error = "ocupado"

\* C14: as long as no two bookings have been in flight together, the store
\* holds at most one client per (email, account).
C14_OneClientPerEmail ==
    ~overlap =>
        \A c1 \in bkClients, c2 \in bkClients :
            (c1.email = c2.email /\ c1.user_id = c2.user_id) => c1 = c2

\* C19: two bookings of the same account and date-time both insert only
\* when each slot check was answered before the other booking's insert;
\* the witness is the run in which they do.
C19_DoubleBookingOnlyByRace ==
    \A s \in Sessions : \A t \in Sessions \ {s} :
        (/\ sess[s].row # 0 /\ sess[t].row # 0
         /\ sess[s].data.user_id = sess[t].data.user_id
         /\ sess[s].data.date = sess[t].data.date)
        => \A r \in sess[s].atCheck : r.by # t

C19_Witness ==
    \E r1 \in bkAppts, r2 \in bkAppts :
        /\ r1.id # r2.id
        /\ r1.by \in Sessions /\ r2.by \in Sessions
        /\ r1.user_id = r2.user_id /\ r1.date = r2.date
        /\ r1.status # "cancelado" /\ r2.status # "cancelado"
        /\ \A s \in Sessions : sess[s].pc = "done"

(***************************************************************************)
(* Client dashboard                                                        *)
(***************************************************************************)
\* C16: in a call of fetchAgendamentos whose requests all succeeded, when
\* the account has a client with the session's id the appointments are
\* queried by that id; when it has none, the client is looked up by
\* (email, account) and the appointments are queried by the id of the
\* record found; when neither lookup finds a client, no appointment query
\* is issued and the appointment list is as it was.  An appointment query
\* always names a client of the account.
C16_LookupFallsBackToEmail ==
    LET byId == clientsById(faStore, fa.sessionId, AdminUser)
        byEmail == clientsMatching(faStore, faClient.email, AdminUser)
    IN  /\ \A i \in 1 .. Len(fa.requests) :
                fa.requests[i].kind = "appointments"
                    => clientsById(faStore, fa.requests[i].arg, AdminUser) # {}
        /\ (fa.pc = "done" /\ ~fa.failed) =>
                IF byId # {}
                THEN fa.requests[2] = FaRequest("appointments", fa.sessionId)
                ELSE /\ fa.requests[2] = FaRequest("client_by_email", faClient.email)
                     /\ IF byEmail = {}
                        THEN /\ Len(fa.requests) = 2
                             /\ agendamentos = fa.listBefore
                        ELSE \E r \in byEmail :
                                fa.requests[3] = FaRequest("appointments", r.id)

C16_Witness ==
    /\ fa.pc = "done" /\ ~fa.failed
    /\ clientsById(faStore, fa.sessionId, AdminUser) = {}
    /\ Len(fa.requests) = 3
    /\ fa.requests[3] = FaRequest("appointments", 2)
    /\ agendamentos = {2}
    /\ fa.listBefore = {1}

(***************************************************************************)
(* Retries                                                                 *)
(***************************************************************************)
\* C17: no query is run again without a user action: each query's queryFn
\* has run at most once per user action that triggered it.
C17_NoAutomaticRetry ==
    \A q \in QueryNames : qry[q].runs <= qry[q].triggers

(***************************************************************************)
(* Overlapping resolve calls and the session's end                         *)
(***************************************************************************)
\* The account's cache for a table.
CacheOf(a, table) ==
    IF table = "booking_clients" THEN clientsCache[a] ELSE modalitiesCache[a]

\* C20: once every resolve call has completed, the account's cache holds
\* every record that any of the calls fetched and merged, however the calls
\* overlapped.
C20_OverlapLosesNothing ==
    (\A c \in CallIds : frd[c].pc = "done") =>
        \A c \in CallIds, table \in Tables :
            \A id \in DOMAIN ReturnedOf(frd[c], table) \ DOMAIN CachedOf(frd[c], table) :
                id \in DOMAIN CacheOf(frd[c].userId, table)

\* C18: after a logout the caches hold no client and no modality entry of
\* the account that was logged in.
C18_LogoutClearsCache ==
    (user = NoUser /\ lastUser # NoUser) =>
        /\ clientsCache[lastUser] = EmptyMap
        /\ modalitiesCache[lastUser] = EmptyMap

(***************************************************************************)
(* Pagination loop                                                         *)
(***************************************************************************)
\* C21: a paginated fetch issues at most maxPages page requests, at the
\* offsets 0, pageSize, 2 * pageSize, ... in this order; every page before
\* the last requested one returned exactly pageSize records, and once the
\* loop has ended without error the last page was short or empty or the
\* next offset reached maxPages * pageSize.
C21_LoopBounded ==
    LET n == Len(fetch.requests)
    IN  /\ n <= maxPages
        /\ \A i \in 1 .. n : fetch.requests[i] = (i - 1) * pageSize
        /\ \A i \in 1 .. n - 1 : fetch.pageLens[i] = pageSize
        /\ fetch.pc = "loop" =>
                /\ Len(fetch.pageLens) = n
                /\ \A i \in 1 .. n : fetch.pageLens[i] = pageSize
                /\ n < maxPages
        /\ (fetch.pc \notin {"idle", "loop"} /\ ~fetch.error) =>
                /\ Len(fetch.pageLens) = n
                /\ n >= 1
                /\ (fetch.pageLens[n] < pageSize \/ n = maxPages)

C21_Witness ==
    /\ fetch.pc = "done"
    /\ ~fetch.error
    /\ Len(fetch.requests) = maxPages
    /\ fetch.pageLens[maxPages] = pageSize
    /\ storeCount > maxPages * pageSize

(***************************************************************************)
(* Claims: the local patch of the appointment list                         *)
(***************************************************************************)
\* The records of the in-memory list; a list that is not loaded has none.
listRecords(q) == IF q.hasData THEN q.data ELSE <<>>

\* The list with the record of that id replaced, the others in place.
withReplaced(records, apt) ==
    [i \in 1 .. Len(records) |-> IF records[i].id = apt.id THEN apt ELSE records[i]]

\* The list without the record of that id, the others in order.
withoutId(records, id) ==
    LET other(apt) == apt.id # id IN SelectSeq(records, other)

\* The record a successful create or update of this step returned.
returnedRecord == apptObject(rowId(mut'.id), apptStore'[mut'.id])

CreateSucceeds == mut.pc = "create_insert" /\ mut'.pc = "created"
UpdateSucceeds == mut.pc = "update_write" /\ mut'.pc = "updated"
DeleteSucceeds == dm.pc = "request" /\ dm'.outcome = "success"

C23_UpdateResolvesPrice ==
    [][UpdateSucceeds =>
        LET before == apptStore[mut.id]
            after == apptStore'[mut.id]
            data == mut.data
        IN  /\ IF data.modality_id # "undefined"
               THEN /\ after.modality_id = data.modality_id
                    /\ after.valor_total =
                         (IF data.modality_id \in modCache
                          THEN cachedValor(data.modality_id)
                          ELSE modalityValor(data.modality_id))
               ELSE /\ after.modality_id = before.modality_id
                    /\ after.valor_total =
                         (IF data.valor_total # Undefined THEN data.valor_total
                          ELSE before.valor_total)
            /\ after.status =
                 (IF data.status # "undefined" THEN data.status ELSE before.status)
            /\ after.is_cortesia = before.is_cortesia
            /\ Len(apptStore') = Len(apptStore)
            /\ \A i \in DOMAIN apptStore : i # mut.id => apptStore'[i] = apptStore[i]]_vars

\* C23 witness: an update to the cached modality "m2" that also supplied a
\* value has stored the cached price, which is not the remote price, and has
\* left the status alone.
C23_Witness ==
    /\ mut.pc = "updated"
    /\ mut.data.modality_id = "m2"
    /\ "m2" \in modCache
    /\ mut.data.valor_total = 50
    /\ mut.data.status = "undefined"
    /\ apptStore[mut.id].modality_id = "m2"
    /\ apptStore[mut.id].valor_total = cachedValor("m2")
    /\ cachedValor("m2") # modalityValor("m2")
    /\ apptStore[mut.id].status = "agendado"

(***************************************************************************)
(* Claims: a mutation that references a missing modality                   *)
(***************************************************************************)
\* The modality that the mutation in flight references has no row in the
\* account and, for an update, no record in the cache.
MissingModality ==
    /\ mut.pc \notin {"idle"}
    /\ mut.data.modality_id \notin ModalityIds \cup {"undefined"}
    /\ mut.data.modality_id \notin modCache

\* C24: a create or update whose modality has no row in the account (and is
\* not cached) never has its insert or update request issued, and its one
\* step after the lookup ends it with 'Modalidade nao encontrada', the table
\* and the in-memory list as they were.
C24_MissingModalityBlocks ==
    [][/\ MissingModality =>
            mut.pc \in {"create_modality", "update_modality", "failed"}
       /\ (MissingModality /\ mut' # mut /\ mut.pc # "failed") =>
            /\ mut'.pc = "failed"
            /\ mut'.error = "Modalidade nao encontrada"
            /\ apptStore' = apptStore
            /\ apptQuery' = apptQuery]_vars

\* C24 witness: an update to the missing modality has failed with the domain
\* error while the list holds records.
C24_Witness ==
    /\ mut.pc = "failed"
    /\ mut.op = "update"
    /\ mut.data.modality_id = "m3"
    /\ mut.error = "Modalidade nao encontrada"
    /\ apptQuery.hasData
    /\ Len(apptQuery.data) >= 2

(***************************************************************************)
(* Claims: label and color of the raw status                               *)
(***************************************************************************)
\* The label of a status; a status outside the known ones is labelled as a
\* charge due.
LabelOfStatus(status) ==
    CASE status = "cancelado" -> "Cancelado"
      [] status = "pago"      -> "Pago"
      [] status = "agendado"  -> "Agendado"
      [] status = "cortesia"  -> "Cortesia"
      [] OTHER                -> "A Cobrar"

\* The color of a status, inside and outside a recurrence group.
ColorOfStatus(status, recurring) ==
    CASE status = "pago"      -> "bg-green-100 text-green-800 border-green-200"
      [] status = "a_cobrar"  -> ACobrarColor
      [] status = "cortesia"  -> CortesiaColor
      [] status = "cancelado" -> "bg-gray-100 text-gray-600 border-gray-200 line-through"
      [] status = "agendado"  -> (IF recurring
                                  THEN "bg-blue-100 text-blue-800 border-blue-200"
                                  ELSE "bg-purple-100 text-purple-800 border-purple-200")
      [] OTHER                -> (IF recurring
                                  THEN "bg-blue-50 text-blue-700 border-blue-200"
                                  ELSE "bg-purple-50 text-purple-700 border-purple-200")

\* The rendered appointment is one the past-due rule reclassifies.
ReclassifiedPastDue ==
    /\ cell.status = "agendado"
    /\ cell.date # NoDate
    /\ (cell.date \div TicksPerDay) < (cell.now \div TicksPerDay)

\* C25: a rendered appointment that is not complimentary and not reclassified
\* by the past-due rule has the label and the color of its raw status,
\* whatever its date and the clock; and for every rendered appointment the
\* label is the one the same appointment gets with any other recurrence flag
\* (the color is too, unless the effective status is 'agendado' or unknown).
C25_RawStatusLabelAndColor ==
    cell.rendered =>
        /\ (~Truthy(cell.is_cortesia) /\ ~ReclassifiedPastDue) =>
                /\ cell.label = LabelOfStatus(cell.status)
                /\ cell.color = ColorOfStatus(cell.status, cell.recurrence_id # "undefined")
        /\ \A r \in RecurrenceIds :
                /\ getStatusLabel(cell.status, cell.date, cell.is_cortesia, cell.now)
                        = cell.label
                /\ effectiveStatus(cell.status, cell.date, cell.is_cortesia, cell.now)
                        \notin {"agendado"} \cup (RawStatuses \ (Statuses \cup {"cortesia"}))
                    => getStatusColor(cell.status, cell.date, r, cell.is_cortesia, cell.now)
                        = cell.color

\* C25 witness: a paid appointment of a recurrence group, dated before the
\* clock's day, has been rendered as paid.
C25_Witness ==
    /\ cell.rendered
    /\ cell.status = "pago"
    /\ cell.is_cortesia = "undefined"
    /\ cell.recurrence_id = "r1"
    /\ cell.date # NoDate
    /\ (cell.date \div TicksPerDay) < (cell.now \div TicksPerDay)
    /\ cell.label = "Pago"
    /\ cell.color = "bg-green-100 text-green-800 border-green-200"

(***************************************************************************)
(* Claims: the slot of a booking                                           *)
(***************************************************************************)
\* C26: with the portal's operations run one at a time, no two appointments of
\* one account that are not cancelled have the same date-time.
C26_OneBookingPerSlot ==
    \A r1 \in bkAppts : \A r2 \in bkAppts :
        (r1.id # r2.id /\ r1.user_id = r2.user_id /\ r1.date = r2.date)
            => (r1.status = "cancelado" \/ r2.status = "cancelado")

(***************************************************************************)
(* Claims: the week on display                                             *)
(***************************************************************************)
\* C27: once the week has changed and every fetchAppointments call has
\* completed, all of them successfully, the dashboard's list is the rows of
\* the week on display.
C27_ListIsDisplayedWeek ==
    (weekCalls.issued > 1 /\ weekCalls.inFlight = {} /\ ~weekCalls.failed)
        => weekAppointments = weekRows(currentWeek)

(***************************************************************************)
(* Claims: the appointment list of the delete dialog                       *)
(***************************************************************************)
\* C28: whenever the dialog is open on a client and not loading, every
\* appointment of its list is an appointment of that client.
C28_ListOfSelectedClient ==
    (modal.clientToDelete # "null" /\ ~modal.loadingAppointments)
        => \A id \in modal.appointmentsForClient :
                \A r \in ApptRowUniverse :
                    r.id = id => r.client_id = modal.clientToDelete

(***************************************************************************)
(* Claims: the cancellation by the client                                  *)
(***************************************************************************)
\* The appointment of that id belongs to the session's client: by its
\* client id, or by the admin's account and the joined client's email.
BelongsToSessionClient(id) ==
    \E r \in caAppts :
        /\ r.id = id
        /\ \/ r.client_id = SessionClient.id
           \/ r.user_id = AdminUser /\ r.email = SessionClient.email

\* The invocation whose update succeeds in this step.
CancelSucceeds(k) == ca[k].pc = "update" /\ ca'[k].outcome = "success"

\* C29: an invocation of handleCancelar has its update issued only for an
\* appointment that belongs to the session's client; the table changes only
\* when an update succeeds, and then only in the status of that appointment;
\* the local list changes only then, and only in the status of the entry
\* with that id, which becomes 'cancelado'.
C29_CancelOnlyOwnAppointment ==
    [][/\ \A k \in CancelCalls :
            ca'[k].pc = "update" => BelongsToSessionClient(ca'[k].id)
       /\ \A k \in CancelCalls : CancelSucceeds(k) =>
            /\ \A r \in caAppts' :
                    IF r.id = ca[k].id THEN r.status = "cancelado" ELSE r \in caAppts
            /\ Len(caList') = Len(caList)
            /\ \A i \in 1 .. Len(caList) :
                    IF caList[i].id = ca[k].id
                    THEN caList'[i] = [id |-> ca[k].id, status |-> "cancelado"]
                    ELSE caList'[i] = caList[i]
       /\ (\A k \in CancelCalls : ~CancelSucceeds(k)) =>
            (caAppts' = caAppts /\ caList' = caList)]_vars

\* C29 witness: the appointment found by the email has been cancelled in the
\* table and in the list, the entries around it as they were, while a call
\* for another client's appointment ended with nothing found.
C29_Witness ==
    /\ ca[1].outcome = "success"
    /\ ca[1].foundBy = "email"
    /\ ca[1].id = 2
    /\ ca[2].outcome = "not found"
    /\ ca[2].id = 3
    /\ Len(caList) = 3
    /\ caList[1] = [id |-> 3, status |-> "pago"]
    /\ caList[2] = [id |-> 1, status |-> "agendado"]
    /\ caList[3] = [id |-> 2, status |-> "cancelado"]
    /\ \E r \in caAppts : r.id = 2 /\ r.status = "cancelado"
    /\ \E r \in caAppts : r.id = 3 /\ r.status = "pago"

(***************************************************************************)
(* Claims: the tabs of the client dashboard                                *)
(***************************************************************************)
\* C30: a fetched appointment is in exactly one of the two tabs of a render.
C30_ExactlyOneTab ==
    tabs.rendered => (tabs.futuros # tabs.passados)

====
